---- MODULE Spec2Model ----
(***************************************************************************)
(* Model of the RAG dialogue core of thucydides:                           *)
(*   - GeminiService.stream_rag_response   (services/gemini.py)            *)
(*   - post_chat_message_streaming         (api/v1/dialogues.py)           *)
(*   - GeminiService.stream_figure_search  (services/gemini.py)            *)
(*   - search_for_figure_streaming         (api/v1/figures.py)             *)
(*   - start_dialogue_session, get_messages_for_session                    *)
(*                                         (api/v1/dialogues.py)           *)
(*   - QdrantDatabase.search, _chunk_text and index_all_figures_dev_mode   *)
(*                                         (db/qdrant.py)                  *)
(*   - chunk_text and process_and_index_books (scripts/ingest_gutenberg.py)*)
(*   - stripe_webhook and StripeService.handle_webhook_event               *)
(*                               (api/v1/billing.py, services/stripe.py)   *)
(* Each component has its own specification (Spec, SpecAccess, SpecSearch, *)
(* SpecFence, SpecQuery, SpecChunk, SpecChunkers, SpecStart, SpecApi,      *)
(* SpecIngest, SpecBilling); the initial predicate of each holds the       *)
(* variables of the others at rest.                                        *)
(* Text is modelled as a sequence of one-character strings, so that        *)
(* concatenation, slicing, find, replace and strip are computed as Python  *)
(* computes them.                                                          *)
(***************************************************************************)
EXTENDS Integers, Sequences, FiniteSets, TLC

VARIABLES
    index,          \* the Qdrant collection: points in descending score order
    db_messages,    \* committed Message rows (with their Citations), in commit order
    pc,             \* per chat request: where the handler / generator stands
    req,            \* per chat request: dialogue_id, user and content
    retrieved,      \* per chat request: retrieved_docs of stream_rag_response
    chunks_recv,    \* per chat request: the chunk.text values received from the generation stream, in order
    rag_events,     \* per chat request: events yielded by stream_rag_response
    retrieval_failed,  \* per chat request: the embedding call or the search raised
    rag_raised,     \* per chat request: an exception left stream_rag_response
    gen_failed,     \* per chat request: the generation call or stream raised
    sent,           \* per chat request: bodies written to the client
    final_response_text,  \* per chat request: accumulator of stream_generator
    final_citations,      \* per chat request: accumulator of stream_generator
    disconnected,   \* per chat request: the client went away during the stream
    fs_pc,          \* figure search: where the handler / generator stands
    fs_payload,     \* figure search: the whole text the model will output
    fs_output,      \* figure search: the chunks the model stream has yet to deliver
    fs_buffer,      \* figure search: buffer of stream_figure_search
    fs_events,      \* figure search: events yielded by stream_figure_search
    fs_frames,      \* figure search: frames written to the client
    fs_raised,      \* figure search: what raised inside the try block, if anything
    fs_propagated,  \* figure search: an exception left stream_figure_search
    sr_call,        \* vector search: the call of QdrantDatabase.search, if any
    sr_result,      \* vector search: the list the call returned
    ck_pc,          \* chunker: "ready" before chunk_text is called, "returned" after
    ck_text,        \* chunker: the argument text
    ck_size,        \* chunker: the argument chunk_size
    ck_overlap,     \* chunker: the argument overlap
    ck_chunks,      \* chunker: the list chunk_text returned
    db_sessions,    \* committed DialogueSession rows, in commit order
    sd_pc,          \* start request: where start_dialogue_session stands
    sd_req,         \* start request: its number, current_user and figure_id
    sd_retrieved,   \* start request: retrieved_docs of the welcome stream
    sd_chunks,      \* start request: chunks received from the generation stream
    sd_events,      \* start request: events the welcome stream yielded
    welcome_content,    \* start request: accumulator of the handler
    welcome_citations,  \* start request: accumulator of the handler
    sd_response,    \* start request: status and body returned to the client
    fs_tagged,      \* figure search: the model's chunks, marker characters tagged
    ix_job,         \* indexing: which of the two indexing procedures runs
    points_to_upsert,  \* indexing: the point lists, one per book (one in all for the biographies)
    ix_cur,         \* indexing: the list being indexed (0 when there is none)
    ix_i,           \* indexing: the loop variable i, start of the current batch
    ix_pc,          \* indexing: "embed", "upsert", "done" or "raised"
    ix_short,       \* indexing: an embedding call raised or returned too few vectors
    gm_call,        \* message listing: current_user and dialogue_id of the last request
    gm_result,      \* message listing: status and messages the last request returned
    db_users,       \* the billing fields of the User rows, by user id
    wh_event,       \* webhook: the last request Stripe's endpoint received
    wh_response     \* webhook: the status the last request was answered with

chatVars == <<pc, req, retrieved, chunks_recv, rag_events,
              retrieval_failed, rag_raised, gen_failed, sent, final_response_text,
              final_citations, disconnected>>

searchVars == <<fs_pc, fs_payload, fs_output, fs_buffer, fs_events, fs_frames,
                fs_raised, fs_propagated>>

\* the stores every component works on
storeVars == <<index, db_messages>>

queryVars == <<sr_call, sr_result>>

chunkVars == <<ck_pc, ck_text, ck_size, ck_overlap, ck_chunks>>

startVars == <<db_sessions, sd_pc, sd_req, sd_retrieved, sd_chunks, sd_events,
               welcome_content, welcome_citations, sd_response>>

ingestVars == <<ix_job, points_to_upsert, ix_cur, ix_i, ix_pc, ix_short>>

readVars == <<gm_call, gm_result>>

billingVars == <<db_users, wh_event, wh_response>>

vars == <<storeVars, chatVars, searchVars, queryVars, chunkVars, startVars,
          fs_tagged, ingestVars, readVars, billingVars>>

\* what the chat turn, the figure search and the vector search leave alone
exceptChat == <<searchVars, queryVars, chunkVars, startVars, fs_tagged, ingestVars,
                readVars, billingVars>>
exceptSearch == <<storeVars, chatVars, queryVars, chunkVars, fs_tagged, ingestVars,
                  readVars, billingVars>>
exceptQuery == <<chatVars, searchVars, db_messages, chunkVars, startVars, fs_tagged,
                 ingestVars, readVars, billingVars>>
exceptChunk == <<storeVars, chatVars, searchVars, queryVars, startVars, fs_tagged,
                 ingestVars, readVars, billingVars>>
exceptStart == <<chatVars, queryVars, chunkVars, fs_tagged, ingestVars, readVars,
                 billingVars>>
exceptIngest == <<db_messages, chatVars, searchVars, queryVars, chunkVars, startVars,
                  fs_tagged, readVars, billingVars>>
exceptRead == <<storeVars, chatVars, searchVars, queryVars, chunkVars, startVars,
                fs_tagged, ingestVars, billingVars>>
exceptBilling == <<storeVars, chatVars, searchVars, queryVars, chunkVars, startVars,
                   fs_tagged, ingestVars, readVars>>

-----------------------------------------------------------------------------
(* Bounds *)

\* chunks a generation stream delivers at most
MaxChunks == 2
\* fragments the figure-search model output is cut into
MaxFragments == 2
\* points a collection holds at most when QdrantDatabase.search is exercised
MaxPoints == 5
\* the largest limit QdrantDatabase.search is called with
MaxLimit == 5
\* characters of the longest text chunk_text is exercised on
MaxTextLen == 10
\* the largest chunk_size chunk_text is exercised with
MaxChunkSize == 4
\* points a list holds at most beyond a whole number of batches
MaxOver == 1
\* characters of the longest text both chunkers are exercised on
MaxBioLen == 5

\* the chat requests, which may be in flight together
Turns == {"t1", "t2"}

-----------------------------------------------------------------------------
(* Fixed data of the model *)

\* the chunk.text values a generation stream can deliver ("" is skipped)
ChunkTexts == { <<>>, <<"a">>, <<"b", " ">> }

Users == {"alice", "bob"}

\* DialogueSession rows joined with their project's owner and their figure
DialogueSessions ==
    { [id |-> "s1", user_id |-> "alice", figure_name |-> "Socrates"] }

DialogueIds == {"s1", "s2"}

\* contents of the vector index the model is run against
Pt(f, s, t) == [figure_name |-> f, source_name |-> s, text |-> t]

Indexes ==
    { << >>,
      << Pt("Socrates", "Apology", "q1"), Pt("Cleopatra", "Plutarch", "q2"),
         Pt("Socrates", "Crito", "q3") >>,
      << Pt("Socrates", "Apology", "q1"), Pt("Socrates", "Crito", "q3"),
         Pt("Cleopatra", "Plutarch", "q2"), Pt("Socrates", "Phaedo", "q4"),
         Pt("Socrates", "Biography", "q5") >> }

\* limit=3 in the call of qdrant_db.search by stream_rag_response
RagLimit == 3

\* the fixed apology of stream_rag_response's except block
error_message ==
    << "I am currently facing difficulty processing your request with the available sources." >>

-----------------------------------------------------------------------------
(* Helpers *)

RECURSIVE Concat(_)
\* "".join(seq): concatenation of a sequence of texts
Concat(ss) == IF ss = << >> THEN << >> ELSE Head(ss) \o Concat(Tail(ss))

RECURSIVE SelectSeqOf(_, _)
\* the points of idx whose figure_name payload equals name, in index order
SelectSeqOf(idx, name) ==
    IF idx = << >> THEN << >>
    ELSE IF Head(idx).figure_name = name
         THEN << Head(idx) >> \o SelectSeqOf(Tail(idx), name)
         ELSE SelectSeqOf(Tail(idx), name)

\* variant of Search: the query carries no filter
SearchUnfiltered(idx, figure_name, limit) ==
    SubSeq(idx, 1, IF Len(idx) < limit THEN Len(idx) ELSE limit)

\* QdrantDatabase.search: filter must figure_name = value, truncated to limit
Search(idx, figure_name, limit) ==
    LET hits == SelectSeqOf(idx, figure_name)
    IN  SubSeq(hits, 1, IF Len(hits) < limit THEN Len(hits) ELSE limit)

TextEvent(c) == [type |-> "text", content |-> c, data |-> << >>]
CitationsEvent(cs) == [type |-> "citations", content |-> << >>, data |-> cs]

\* Citation(source=doc.payload["source_name"], text_quote=doc.payload["text"])
Citation(doc) == [source |-> doc.source_name, text_quote |-> doc.text]

\* variant of Citations: only the best document is cited
CitationsOfFirst(docs) ==
    [i \in 1..(IF docs = << >> THEN 0 ELSE 1) |-> Citation(docs[i])]

\* the citations list built after the generation stream is exhausted
Citations(docs) == [i \in 1..Len(docs) |-> Citation(docs[i])]

\* variant of LookupSession: the select has no condition on Project.user_id
LookupSessionOfAnyUser(user, dialogue_id) ==
    { s \in DialogueSessions : s.id = dialogue_id }

\* the DialogueSession the request may use: joined with Project on user_id
LookupSession(user, dialogue_id) ==
    { s \in DialogueSessions : s.user_id = user /\ s.id = dialogue_id }

FigureOf(t) ==
    (CHOOSE s \in DialogueSessions : s.id = req[t].dialogue_id).figure_name

\* a committed Message row; session names the persistence session that
\* committed it, turn the request that created it
Message(role, content, dialogue_id, cits, sess, t) ==
    [role |-> role, content |-> content, dialogue_session_id |-> dialogue_id,
     citations |-> cits, session |-> sess, turn |-> t]

-----------------------------------------------------------------------------
(* Python string operations on texts (sequences of one-character strings) *)

Whitespace == {" "}

\* s[i:] with a 1-based i
From(s, i) == SubSeq(s, i, Len(s))

\* s.find(pat): 1-based position of the first occurrence of pat, 0 if none
FindText(s, pat) ==
    LET hits == { i \in 1..(Len(s) - Len(pat) + 1) :
                    SubSeq(s, i, i + Len(pat) - 1) = pat }
    IN  IF hits = {} THEN 0 ELSE CHOOSE i \in hits : \A j \in hits : i <= j

RECURSIVE Remove(_, _)
\* s.replace(pat, ""): the leftmost non-overlapping occurrences are removed
Remove(s, pat) ==
    LET i == FindText(s, pat)
    IN  IF i = 0 THEN s
        ELSE SubSeq(s, 1, i - 1) \o Remove(From(s, i + Len(pat)), pat)

RECURSIVE LStrip(_)
LStrip(s) ==
    IF s # << >> /\ Head(s) \in Whitespace THEN LStrip(Tail(s)) ELSE s

RECURSIVE RStrip(_)
RStrip(s) ==
    IF s # << >> /\ s[Len(s)] \in Whitespace
    THEN RStrip(SubSeq(s, 1, Len(s) - 1)) ELSE s

\* s.strip()
Strip(s) == RStrip(LStrip(s))

\* c in s
Contains(s, c) == \E i \in 1..Len(s) : s[i] = c

\* s.find(c, start): 1-based position of the first c at or after start, 0 if none
Find(s, c, start) ==
    LET hits == { i \in start..Len(s) : s[i] = c }
    IN  IF hits = {} THEN 0 ELSE CHOOSE i \in hits : \A j \in hits : i <= j

\* the grave accent, which a string literal of this language cannot hold
Backtick == "^"

FenceJson == << Backtick, Backtick, Backtick, "j", "s", "o", "n" >>
Fence == << Backtick, Backtick, Backtick >>

\* buffer.replace(FenceJson, "").replace(Fence, "").strip()
CleanBuffer(buffer) == Strip(Remove(Remove(buffer, FenceJson), Fence))

-----------------------------------------------------------------------------
(* json.loads on the texts the model can output: objects whose members     *)
(* are strings or objects, strings without escapes, blanks as whitespace.  *)
(* A decoded string is [k |-> "str", v |-> text], a decoded object is      *)
(* [k |-> "obj", v |-> function from key text to decoded value].           *)

JStr(x) == [k |-> "str", v |-> x]
JObj(d) == [k |-> "obj", v |-> d]
JNone == [k |-> "none", v |-> << >>]

ParseFail == [ok |-> FALSE, val |-> JNone, pos |-> 0]
ParseOk(v, p) == [ok |-> TRUE, val |-> v, pos |-> p]

RECURSIVE SkipWs(_, _)
SkipWs(s, i) ==
    IF i <= Len(s) /\ s[i] \in Whitespace THEN SkipWs(s, i + 1) ELSE i

\* a string literal starting at the quote s[i]
ParseString(s, i) ==
    LET close == Find(s, "\"", i + 1)
    IN  IF close = 0 THEN ParseFail
        ELSE ParseOk(JStr(SubSeq(s, i + 1, close - 1)), close + 1)

\* d[key] = val on a dict
DictSet(d, key, val) ==
    [x \in (DOMAIN d) \cup {key} |-> IF x = key THEN val ELSE d[x]]

EmptyDict == [x \in {} |-> JNone]

RECURSIVE ParseValue(_, _)
RECURSIVE ParseMembers(_, _, _)

\* a JSON value starting at s[i]
ParseValue(s, i) ==
    IF i > Len(s) THEN ParseFail
    ELSE IF s[i] = "\"" THEN ParseString(s, i)
    ELSE IF s[i] = "{"
         THEN LET j == SkipWs(s, i + 1)
              IN  IF j <= Len(s) /\ s[j] = "}"
                  THEN ParseOk(JObj(EmptyDict), j + 1)
                  ELSE ParseMembers(s, j, EmptyDict)
    ELSE ParseFail

\* the members of an object from the key at s[i] up to the closing brace
ParseMembers(s, i, d) ==
    IF i > Len(s) \/ s[i] # "\"" THEN ParseFail
    ELSE LET key == ParseString(s, i)
         IN  IF ~key.ok THEN ParseFail
             ELSE LET c == SkipWs(s, key.pos)
                  IN  IF c > Len(s) \/ s[c] # ":" THEN ParseFail
                      ELSE LET val == ParseValue(s, SkipWs(s, c + 1))
                           IN  IF ~val.ok THEN ParseFail
                               ELSE LET m == SkipWs(s, val.pos)
                                        d2 == DictSet(d, key.val.v, val.val)
                                    IN  IF m > Len(s) THEN ParseFail
                                        ELSE IF s[m] = ","
                                             THEN ParseMembers(s, SkipWs(s, m + 1), d2)
                                        ELSE IF s[m] = "}"
                                             THEN ParseOk(JObj(d2), m + 1)
                                        ELSE ParseFail

\* json.loads(s): ok is FALSE where Python raises JSONDecodeError
JsonLoads(s) ==
    LET r == ParseValue(s, SkipWs(s, 1))
    IN  IF r.ok /\ SkipWs(s, r.pos) > Len(s) THEN r ELSE ParseFail

-----------------------------------------------------------------------------
(* Figure search: candidates and the texts the model can output *)

TypeKey == << "t", "y", "p", "e" >>
PayloadKey == << "p", "a", "y", "l", "o", "a", "d" >>
IdKey == << "i", "d" >>
NameKey == << "n", "a", "m", "e" >>
AvatarKey == << "a", "v", "a", "t", "a", "r" >>
LogType == << "l", "o", "g" >>
MatchType == << "m", "a", "t", "c", "h" >>
ErrorType == << "e", "r", "r", "o", "r" >>
DoneType == << "d", "o", "n", "e" >>

\* all_figures: the HistoricalFigure rows, with str(figure.id)
Figures ==
    << [id |-> << "1" >>, name |-> << "S" >>, avatar |-> << "u" >>],
       [id |-> << "2" >>, name |-> << "C" >>, avatar |-> << "w" >>] >>

Quote(x) == << "\"" >> \o x \o << "\"" >>
Member(key, val) == Quote(key) \o << ":" >> \o val

\* {"type":"<ty>","payload":"<p>"}
FlatObject(ty, p) ==
    << "{" >> \o Member(TypeKey, Quote(ty)) \o << "," >>
              \o Member(PayloadKey, Quote(p)) \o << "}" >>

\* the format step 4 of the prompt prescribes:
\* {"type":"match","payload":{"id":"..","name":"..","avatar":".."}}
MatchObject(id, name, avatar) ==
    << "{" >> \o Member(TypeKey, Quote(MatchType)) \o << "," >>
              \o Member(PayloadKey,
                        << "{" >> \o Member(IdKey, Quote(id)) \o << "," >>
                                  \o Member(NameKey, Quote(name)) \o << "," >>
                                  \o Member(AvatarKey, Quote(avatar)) \o << "}" >>)
              \o << "}" >>

\* model outputs made of non-nested objects
NonNestedOutputs ==
    { FlatObject(LogType, << "a", " ", "b" >>) \o << " " >>
          \o FlatObject(ErrorType, << "n" >>),
      FlatObject(ErrorType, << "n" >>) \o FlatObject(LogType, << "x" >>),
      FlatObject(MatchType, << "S" >>) }

\* model outputs in the format the prompt prescribes: logs, then a match
PrescribedOutputs ==
    { FlatObject(LogType, << "x" >>) \o MatchObject(<< "9" >>, << "S" >>, << "u" >>) }

ModelOutputs == NonNestedOutputs \cup PrescribedOutputs

RECURSIVE Splits(_, _)
\* the ways of cutting text s into n consecutive fragments (empty ones included)
Splits(s, n) ==
    IF n <= 1 THEN { << s >> }
    ELSE UNION { { << SubSeq(s, 1, i) >> \o r : r \in Splits(From(s, i + 1), n - 1) }
                 : i \in 0..Len(s) }

\* the form field query: empty or not
Queries == { << >>, << "w", "h", "o" >> }

-----------------------------------------------------------------------------
(* Initial state *)

NoReq == [dialogue_id |-> "none", user |-> "none", content |-> << >>]

\* no figure search is running
SearchOff ==
    /\ fs_tagged = << >>
    /\ fs_pc = "off"
    /\ fs_payload = << >>
    /\ fs_output = << >>
    /\ fs_buffer = << >>
    /\ fs_events = << >>
    /\ fs_frames = << >>
    /\ fs_raised = "none"
    /\ fs_propagated = FALSE

\* no chat request exists
ChatOff ==
    /\ pc = [t \in Turns |-> "off"]
    /\ req = [t \in Turns |-> NoReq]
    /\ retrieved = [t \in Turns |-> << >>]
    /\ chunks_recv = [t \in Turns |-> << >>]
    /\ rag_events = [t \in Turns |-> << >>]
    /\ retrieval_failed = [t \in Turns |-> FALSE]
    /\ rag_raised = [t \in Turns |-> FALSE]
    /\ gen_failed = [t \in Turns |-> FALSE]
    /\ sent = [t \in Turns |-> << >>]
    /\ final_response_text = [t \in Turns |-> << >>]
    /\ final_citations = [t \in Turns |-> << >>]
    /\ disconnected = [t \in Turns |-> FALSE]

NoCall == [figure_name |-> "none", limit |-> 0, caller |-> "none", raised |-> FALSE]

\* QdrantDatabase.search has not been called
QueryOff ==
    /\ sr_call = NoCall
    /\ sr_result = << >>

NoRead == [user |-> "none", dialogue_id |-> "none"]

NoMessages == [status |-> 0, messages |-> << >>]

\* no request has listed the messages of a session
ReadOff ==
    /\ gm_call = NoRead
    /\ gm_result = NoMessages

\* the billing webhook is not part of the run
BillingOff ==
    /\ db_users = << >>
    /\ wh_event = << >>
    /\ wh_response = 0

\* no indexing procedure runs
IngestOff ==
    /\ ix_job = "none"
    /\ points_to_upsert = << >>
    /\ ix_cur = 0
    /\ ix_i = 0
    /\ ix_pc = "off"
    /\ ix_short = FALSE

\* chunk_text is not being exercised
ChunkOff ==
    /\ ck_pc = "off"
    /\ ck_text = << >>
    /\ ck_size = 1
    /\ ck_overlap = 0
    /\ ck_chunks = << >>

NoStart == [n |-> 0, user |-> "none", active_project_id |-> "none",
            figure_id |-> "none"]

NoResponse == [status |-> 0, body |-> "none"]

\* no start_dialogue_session request has been made: the handler state
StartIdle(at) ==
    /\ sd_pc = at
    /\ sd_req = NoStart
    /\ sd_retrieved = << >>
    /\ sd_chunks = 0
    /\ sd_events = << >>
    /\ welcome_content = << >>
    /\ welcome_citations = << >>
    /\ sd_response = NoResponse

\* start_dialogue_session is not part of the run
StartOff ==
    /\ db_sessions = << >>
    /\ StartIdle("off")

Init ==
    /\ SearchOff
    /\ QueryOff
    /\ ReadOff
    /\ BillingOff
    /\ ChunkOff
    /\ IngestOff
    /\ StartOff
    /\ index \in Indexes
    /\ db_messages = << >>
    /\ pc = [t \in Turns |-> "idle"]
    /\ req = [t \in Turns |-> NoReq]
    /\ retrieved = [t \in Turns |-> << >>]
    /\ chunks_recv = [t \in Turns |-> << >>]
    /\ rag_events = [t \in Turns |-> << >>]
    /\ retrieval_failed = [t \in Turns |-> FALSE]
    /\ rag_raised = [t \in Turns |-> FALSE]
    /\ gen_failed = [t \in Turns |-> FALSE]
    /\ sent = [t \in Turns |-> << >>]
    /\ final_response_text = [t \in Turns |-> << >>]
    /\ final_citations = [t \in Turns |-> << >>]
    /\ disconnected = [t \in Turns |-> FALSE]

-----------------------------------------------------------------------------
(* post_chat_message_streaming: the request handler *)

Contents == { <<"q">> }

RequestSession == "session"
PostStreamSession == "post_stream_session"

\* variant of CommitUser: the user message is added but not committed
\* before the response is returned
CommitUserSkipped(db, t) == db

\* session.add(user_message); await session.commit()
CommitUser(db, t) ==
    Append(db, Message("user", req[t].content, req[t].dialogue_id, << >>,
                       RequestSession, t))

\* the select ... where Project.user_id == current_user.id and id == dialogue_id
ChatLookup(t) ==
    /\ pc[t] = "idle"
    /\ UNCHANGED exceptChat
    /\ \E u \in Users, d \in DialogueIds, c \in Contents :
         /\ req' = [req EXCEPT ![t] = [dialogue_id |-> d, user |-> u, content |-> c]]
         /\ pc' = [pc EXCEPT ![t] =
                     IF LookupSession(u, d) = {} THEN "http404" ELSE "found"]
    /\ UNCHANGED <<index, db_messages, retrieved, chunks_recv, rag_events,
                   retrieval_failed, rag_raised, gen_failed, sent, final_response_text,
                   final_citations, disconnected>>

\* "Save user message first": the commit succeeds and the StreamingResponse
\* is returned, or the commit raises and the request ends with a 500
ChatCommitUser(t) ==
    /\ pc[t] = "found"
    /\ UNCHANGED exceptChat
    /\ \/ /\ db_messages' = CommitUser(db_messages, t)
          /\ pc' = [pc EXCEPT ![t] = "responding"]
       \/ /\ db_messages' = db_messages
          /\ pc' = [pc EXCEPT ![t] = "http500"]
    /\ UNCHANGED <<index, req, retrieved, chunks_recv, rag_events, retrieval_failed, rag_raised,
                   gen_failed, sent, final_response_text, final_citations,
                   disconnected>>

\* the server starts iterating stream_generator, which creates the RAG stream
ChatOpenStream(t) ==
    /\ pc[t] = "responding"
    /\ UNCHANGED exceptChat
    /\ pc' = [pc EXCEPT ![t] = "retrieve"]
    /\ UNCHANGED <<index, db_messages, req, retrieved, chunks_recv, rag_events,
                   retrieval_failed, rag_raised, gen_failed, sent, final_response_text,
                   final_citations, disconnected>>

-----------------------------------------------------------------------------
(* stream_rag_response, consumed by stream_generator *)

\* variant of Consume: a text event's content is joined to the body
\* written before it
ConsumeBuffered(t, ev) ==
    /\ rag_events' = [rag_events EXCEPT ![t] = Append(@, ev)]
    /\ IF ev.type = "text"
       THEN /\ sent' = [sent EXCEPT ![t] =
                          IF @ = << >> THEN << ev.content >>
                          ELSE [@ EXCEPT ![Len(@)] = @ \o ev.content]]
            /\ final_response_text' =
                 [final_response_text EXCEPT ![t] = @ \o ev.content]
            /\ UNCHANGED final_citations
       ELSE /\ final_citations' = [final_citations EXCEPT ![t] = ev.data]
            /\ UNCHANGED <<sent, final_response_text>>

\* one pass of the "async for event in stream" body of stream_generator:
\* a text event is written to the client and accumulated, a citations event
\* replaces final_citations
Consume(t, ev) ==
    /\ rag_events' = [rag_events EXCEPT ![t] = Append(@, ev)]
    /\ IF ev.type = "text"
       THEN /\ sent' = [sent EXCEPT ![t] = Append(@, ev.content)]
            /\ final_response_text' =
                 [final_response_text EXCEPT ![t] = @ \o ev.content]
            /\ UNCHANGED final_citations
       ELSE /\ final_citations' = [final_citations EXCEPT ![t] = ev.data]
            /\ UNCHANGED <<sent, final_response_text>>

\* retrieved_docs = await qdrant_db.search(..., limit=3): outside any try
RagRetrieve(t) ==
    /\ pc[t] = "retrieve"
    /\ UNCHANGED exceptChat
    /\ retrieved' = [retrieved EXCEPT ![t] = Search(index, FigureOf(t), RagLimit)]
    /\ pc' = [pc EXCEPT ![t] = "send_message"]
    /\ UNCHANGED <<index, db_messages, req, chunks_recv, rag_events, retrieval_failed, rag_raised,
                   gen_failed, sent, final_response_text, final_citations,
                   disconnected>>

\* the embedding call or the vector search raises: nothing catches it in
\* stream_rag_response nor in stream_generator
RagRetrieveRaises(t) ==
    /\ pc[t] = "retrieve"
    /\ UNCHANGED exceptChat
    /\ retrieval_failed' = [retrieval_failed EXCEPT ![t] = TRUE]
    /\ rag_raised' = [rag_raised EXCEPT ![t] = TRUE]
    /\ pc' = [pc EXCEPT ![t] = "crashed"]
    /\ UNCHANGED <<index, db_messages, req, retrieved, chunks_recv, rag_events,
                   gen_failed, sent, final_response_text, final_citations,
                   disconnected>>

\* the first yield of the except block: the apology text event
RagExcept(t) ==
    /\ gen_failed' = [gen_failed EXCEPT ![t] = TRUE]
    /\ Consume(t, TextEvent(error_message))
    /\ pc' = [pc EXCEPT ![t] = "except_citations"]

\* stream = await chat_session.send_message_async(..., stream=True)
RagSendMessage(t) ==
    /\ pc[t] = "send_message"
    /\ UNCHANGED exceptChat
    /\ pc' = [pc EXCEPT ![t] = "streaming"]
    /\ UNCHANGED <<index, db_messages, req, retrieved, chunks_recv, rag_events,
                   retrieval_failed, rag_raised, gen_failed, sent, final_response_text,
                   final_citations, disconnected>>

\* building the model or sending the message raises
RagSendMessageRaises(t) ==
    /\ pc[t] = "send_message"
    /\ UNCHANGED exceptChat
    /\ RagExcept(t)
    /\ UNCHANGED <<index, db_messages, req, retrieved, chunks_recv, retrieval_failed, rag_raised,
                   disconnected>>

\* async for chunk in stream: if chunk.text: yield text event
RagChunk(t) ==
    /\ pc[t] = "streaming"
    /\ UNCHANGED exceptChat
    /\ Len(chunks_recv[t]) < MaxChunks
    /\ \E x \in ChunkTexts :
         /\ chunks_recv' = [chunks_recv EXCEPT ![t] = Append(@, x)]
         /\ IF x # << >>
            THEN Consume(t, TextEvent(x))
            ELSE UNCHANGED <<rag_events, sent, final_response_text, final_citations>>
    /\ UNCHANGED <<index, db_messages, pc, req, retrieved, retrieval_failed, rag_raised,
                   gen_failed, disconnected>>

\* the generation stream raises between two chunks (or chunk.text raises)
RagStreamRaises(t) ==
    /\ pc[t] = "streaming"
    /\ UNCHANGED exceptChat
    /\ RagExcept(t)
    /\ UNCHANGED <<index, db_messages, req, retrieved, chunks_recv, retrieval_failed, rag_raised,
                   disconnected>>

\* variant of RagExceptCitations: the except block ends after the apology
RagExceptCitationsOmitted(t) ==
    /\ pc[t] = "except_citations"
    /\ UNCHANGED exceptChat
    /\ pc' = [pc EXCEPT ![t] = "persist"]
    /\ UNCHANGED <<index, db_messages, req, retrieved, chunks_recv, rag_events,
                   retrieval_failed, rag_raised, gen_failed, sent,
                   final_response_text, final_citations, disconnected>>

\* variant of RagExceptCitations: the except block cites the retrieved documents
RagExceptCitationsFromDocs(t) ==
    /\ pc[t] = "except_citations"
    /\ UNCHANGED exceptChat
    /\ Consume(t, CitationsEvent(Citations(retrieved[t])))
    /\ pc' = [pc EXCEPT ![t] = "persist"]
    /\ UNCHANGED <<index, db_messages, req, retrieved, chunks_recv, retrieval_failed, rag_raised,
                   gen_failed, disconnected>>

\* the second yield of the except block: {"type": "citations", "data": []}
RagExceptCitations(t) ==
    /\ pc[t] = "except_citations"
    /\ UNCHANGED exceptChat
    /\ Consume(t, CitationsEvent(<< >>))
    /\ pc' = [pc EXCEPT ![t] = "persist"]
    /\ UNCHANGED <<index, db_messages, req, retrieved, chunks_recv, retrieval_failed, rag_raised,
                   gen_failed, disconnected>>

\* the stream is exhausted: the citations are built from retrieved_docs
RagStreamEnd(t) ==
    /\ pc[t] = "streaming"
    /\ UNCHANGED exceptChat
    /\ Consume(t, CitationsEvent(Citations(retrieved[t])))
    /\ pc' = [pc EXCEPT ![t] = "persist"]
    /\ UNCHANGED <<index, db_messages, req, retrieved, chunks_recv, retrieval_failed, rag_raised,
                   gen_failed, disconnected>>

-----------------------------------------------------------------------------
(* stream_generator after the loop, and the client going away *)

\* Citation(source=cit_data.source, text_quote=cit_data.text_quote, ...)
NewCitations(cits) ==
    [i \in 1..Len(cits) |->
        [source |-> cits[i].source, text_quote |-> cits[i].text_quote]]

\* variant of CommitAssistant: the commit goes through the request's session
CommitAssistantInRequestSession(db, t) ==
    Append(db, Message("assistant", final_response_text[t], req[t].dialogue_id,
                       NewCitations(final_citations[t]), RequestSession, t))

\* variant of CommitAssistant: the commit writes the session's messages as
\* the request had loaded them, and so drops the rows other requests added
CommitAssistantOverOthers(db, t) ==
    Append(SelectSeq(db, LAMBDA m : m.turn = t),
           Message("assistant", final_response_text[t], req[t].dialogue_id,
                   NewCitations(final_citations[t]), PostStreamSession, t))

\* async with postgres_db.async_session_maker() as post_stream_session: add the
\* assistant message, flush, add its citations, commit
CommitAssistant(db, t) ==
    Append(db, Message("assistant", final_response_text[t], req[t].dialogue_id,
                       NewCitations(final_citations[t]), PostStreamSession, t))

\* variant of ChatPersistAssistant: when the commit raises, the flushed
\* Message row stays
ChatPersistAssistantKeepsFlushed(t) ==
    /\ pc[t] = "persist"
    /\ UNCHANGED exceptChat
    /\ \/ /\ db_messages' = CommitAssistant(db_messages, t)
          /\ pc' = [pc EXCEPT ![t] = "done"]
       \/ /\ db_messages' =
                Append(db_messages,
                       Message("assistant", final_response_text[t],
                               req[t].dialogue_id, << >>, PostStreamSession, t))
          /\ pc' = [pc EXCEPT ![t] = "persist_failed"]
    /\ UNCHANGED <<index, req, retrieved, chunks_recv, rag_events, retrieval_failed, rag_raised,
                   gen_failed, sent, final_response_text, final_citations,
                   disconnected>>

\* the commit succeeds, or flush/commit raises and the session context rolls back
ChatPersistAssistant(t) ==
    /\ pc[t] = "persist"
    /\ UNCHANGED exceptChat
    /\ \/ /\ db_messages' = CommitAssistant(db_messages, t)
          /\ pc' = [pc EXCEPT ![t] = "done"]
       \/ /\ db_messages' = db_messages
          /\ pc' = [pc EXCEPT ![t] = "persist_failed"]
    /\ UNCHANGED <<index, req, retrieved, chunks_recv, rag_events, retrieval_failed, rag_raised,
                   gen_failed, sent, final_response_text, final_citations,
                   disconnected>>

Suspended == {"responding", "retrieve", "send_message", "streaming",
              "except_citations", "persist"}

\* the client disconnects: the response task is cancelled at the await or
\* yield where stream_generator is suspended; no finally block runs anything
ChatDisconnect(t) ==
    /\ pc[t] \in Suspended
    /\ UNCHANGED exceptChat
    /\ disconnected' = [disconnected EXCEPT ![t] = TRUE]
    /\ pc' = [pc EXCEPT ![t] = "cancelled"]
    /\ UNCHANGED <<index, db_messages, req, retrieved, chunks_recv, rag_events,
                   retrieval_failed, rag_raised, gen_failed, sent, final_response_text,
                   final_citations>>

\* a step of one chat request
TurnStep(t) ==
    \/ ChatLookup(t)
    \/ ChatCommitUser(t)
    \/ ChatOpenStream(t)
    \/ RagRetrieve(t)
    \/ RagRetrieveRaises(t)
    \/ RagSendMessage(t)
    \/ RagSendMessageRaises(t)
    \/ RagChunk(t)
    \/ RagStreamRaises(t)
    \/ RagExceptCitations(t)
    \/ RagStreamEnd(t)
    \/ ChatPersistAssistant(t)
    \/ ChatDisconnect(t)

Next == \E t \in Turns : TurnStep(t)

Spec == Init /\ [][Next]_vars

-----------------------------------------------------------------------------
(* get_messages_for_session, next to a chat request *)

\* dialogue_session.messages: the Message rows of the session
SessionMessages(dialogue_id) ==
    SelectSeq(db_messages, LAMBDA m : m.dialogue_session_id = dialogue_id)

\* the whole handler: the same select as the chat handler's, 404 when it
\* finds no row, the session's messages otherwise
GetMessages ==
    /\ \E u \in Users, d \in DialogueIds :
         /\ gm_call' = [user |-> u, dialogue_id |-> d]
         /\ gm_result' = IF LookupSession(u, d) = {}
                          THEN [status |-> 404, messages |-> << >>]
                          ELSE [status |-> 200, messages |-> SessionMessages(d)]
    /\ UNCHANGED exceptRead

\* one chat request, and requests for the messages of a session
NextAccess == TurnStep("t1") \/ GetMessages

\* the welcome Message start_dialogue_session committed for the session
WelcomeRow(dialogue_id) ==
    Message("assistant", << "a" >>, dialogue_id, << >>, RequestSession, "welcome")

\* every DialogueSession holds its welcome Message; no request was made yet
InitAccess ==
    /\ SearchOff
    /\ QueryOff
    /\ ReadOff
    /\ BillingOff
    /\ ChunkOff
    /\ IngestOff
    /\ StartOff
    /\ index \in Indexes
    /\ db_messages = << WelcomeRow("s1") >>
    /\ pc = [t \in Turns |-> "idle"]
    /\ req = [t \in Turns |-> NoReq]
    /\ retrieved = [t \in Turns |-> << >>]
    /\ chunks_recv = [t \in Turns |-> << >>]
    /\ rag_events = [t \in Turns |-> << >>]
    /\ retrieval_failed = [t \in Turns |-> FALSE]
    /\ rag_raised = [t \in Turns |-> FALSE]
    /\ gen_failed = [t \in Turns |-> FALSE]
    /\ sent = [t \in Turns |-> << >>]
    /\ final_response_text = [t \in Turns |-> << >>]
    /\ final_citations = [t \in Turns |-> << >>]
    /\ disconnected = [t \in Turns |-> FALSE]

SpecAccess == InitAccess /\ [][NextAccess]_vars

-----------------------------------------------------------------------------
(* stream_figure_search: the JSON-narration parser *)

\* d.get(key)
Get(d, key) == IF key \in DOMAIN d THEN d[key] ELSE JNone

Dict2(k1, v1, k2, v2) == DictSet(DictSet(EmptyDict, k1, v1), k2, v2)

\* the event of the except block
GatewayError ==
    Dict2(TypeKey, JStr(ErrorType),
          PayloadKey, JStr(<< "An unexpected error occurred with the AI service." >>))

\* {'type': 'done'}
DoneEvent == DictSet(EmptyDict, TypeKey, JStr(DoneType))

\* f"data: {json.dumps(event)}\n\n"
Frame(event) == [prefix |-> "data: ", event |-> event, suffix |-> "\n\n"]

\* {"id": str(figure.id), "name": figure.name, "avatar": figure.avatar}
Canonical(figure) ==
    DictSet(Dict2(IdKey, JStr(figure.id), NameKey, JStr(figure.name)),
            AvatarKey, JStr(figure.avatar))

\* the block "if data.get("type") == "match": ..." applied to the decoded
\* data: raised where data["payload"] is missing (KeyError) or is not an
\* object (AttributeError on .get)
ProcessData(data) ==
    IF data.k # "obj" THEN [raised |-> TRUE, data |-> EmptyDict]
    ELSE IF Get(data.v, TypeKey) # JStr(MatchType)
         THEN [raised |-> FALSE, data |-> data.v]
    ELSE IF PayloadKey \notin DOMAIN data.v
         THEN [raised |-> TRUE, data |-> EmptyDict]
    ELSE IF data.v[PayloadKey].k # "obj"
         THEN [raised |-> TRUE, data |-> EmptyDict]
    ELSE LET matched_name == Get(data.v[PayloadKey].v, NameKey)
             hits == { i \in 1..Len(Figures) : JStr(Figures[i].name) = matched_name }
         IN  IF hits = {} THEN [raised |-> FALSE, data |-> data.v]
             ELSE LET first == CHOOSE i \in hits : \A j \in hits : i <= j
                  IN  [raised |-> FALSE,
                       data |-> DictSet(data.v, PayloadKey,
                                        JObj(Canonical(Figures[first])))]

\* variant of ParseStep: the decoded span starts at the start of the buffer
ParseStepFromStart(buffer) ==
    LET wait == [kind |-> "wait", data |-> EmptyDict, buffer |-> buffer]
    IN  IF ~(Contains(buffer, "{") /\ Contains(buffer, "}")) THEN wait
        ELSE LET start_index == Find(buffer, "{", 1)
                 end_index == Find(buffer, "}", start_index)
             IN  IF end_index = 0 THEN wait
                 ELSE LET r == JsonLoads(SubSeq(buffer, 1, end_index))
                      IN  IF ~r.ok THEN wait
                          ELSE LET p == ProcessData(r.val)
                               IN  IF p.raised
                                   THEN [kind |-> "raise", data |-> EmptyDict,
                                         buffer |-> buffer]
                                   ELSE [kind |-> "yield", data |-> p.data,
                                         buffer |-> From(buffer, end_index + 1)]

\* one evaluation of the while loop: its condition and its body.
\* "wait": the loop is left (no braces, no closing brace, or JSONDecodeError);
\* "yield": data is yielded and the parsed part removed from the buffer;
\* "raise": processing the decoded data raised
ParseStep(buffer) ==
    LET wait == [kind |-> "wait", data |-> EmptyDict, buffer |-> buffer]
    IN  IF ~(Contains(buffer, "{") /\ Contains(buffer, "}")) THEN wait
        ELSE LET start_index == Find(buffer, "{", 1)
                 end_index == Find(buffer, "}", start_index)
             IN  IF end_index = 0 THEN wait
                 ELSE LET r == JsonLoads(SubSeq(buffer, start_index, end_index))
                      IN  IF ~r.ok THEN wait
                          ELSE LET p == ProcessData(r.val)
                               IN  IF p.raised
                                   THEN [kind |-> "raise", data |-> EmptyDict,
                                         buffer |-> buffer]
                                   ELSE [kind |-> "yield", data |-> p.data,
                                         buffer |-> From(buffer, end_index + 1)]

RECURSIVE Drain(_)
\* the whole while loop on one buffer: the events it yields, the buffer left
Drain(buffer) ==
    LET r == ParseStep(buffer)
    IN  IF r.kind = "wait"
        THEN [events |-> << >>, buffer |-> buffer, raised |-> FALSE]
        ELSE IF r.kind = "raise"
        THEN [events |-> << GatewayError >>, buffer |-> buffer, raised |-> TRUE]
        ELSE LET rest == Drain(r.buffer)
             IN  [events |-> << r.data >> \o rest.events, buffer |-> rest.buffer,
                  raised |-> rest.raised]

RECURSIVE Feed(_, _)
\* the events stream_figure_search yields for a model stream that delivers
\* the chunks and ends without raising
Feed(chunks, buffer) ==
    IF chunks = << >> THEN << >>
    ELSE LET d == Drain(CleanBuffer(buffer \o Head(chunks)))
         IN  IF d.raised THEN d.events
             ELSE d.events \o Feed(Tail(chunks), d.buffer)

-----------------------------------------------------------------------------
(* search_for_figure_streaming and stream_figure_search as a state machine *)

InitSearch ==
    /\ fs_pc = "idle"
    /\ fs_payload \in ModelOutputs
    /\ fs_output \in Splits(fs_payload, MaxFragments)
    /\ fs_buffer = << >>
    /\ fs_events = << >>
    /\ fs_frames = << >>
    /\ fs_raised = "none"
    /\ fs_propagated = FALSE
    /\ fs_tagged = << >>
    /\ index = << >>
    /\ db_messages = << >>
    /\ ChatOff
    /\ QueryOff
    /\ ReadOff
    /\ BillingOff
    /\ ChunkOff
    /\ IngestOff
    /\ StartOff

\* an event is yielded and stream_generator writes its frame
Yield(event) ==
    /\ fs_events' = Append(fs_events, event)
    /\ fs_frames' = Append(fs_frames, Frame(event))

\* variant of FsExcept: the exception is logged and raised again
FsExceptReraise(cause) ==
    /\ fs_raised' = cause
    /\ UNCHANGED <<fs_events, fs_frames>>
    /\ fs_pc' = "crashed"
    /\ fs_propagated' = TRUE

\* except Exception: log, yield the error event, and the generator returns
FsExcept(cause) ==
    /\ fs_raised' = cause
    /\ Yield(GatewayError)
    /\ fs_pc' = "returned"
    /\ fs_propagated' = FALSE

\* if not query: raise HTTPException(400); otherwise the response is returned
FsRequest ==
    /\ fs_pc = "idle"
    /\ \E query \in Queries :
         fs_pc' = IF query = << >> THEN "http400" ELSE "call"
    /\ UNCHANGED <<fs_payload, fs_output, fs_buffer, fs_events, fs_frames,
                   fs_raised, fs_propagated>>
    /\ UNCHANGED exceptSearch
    /\ UNCHANGED startVars

\* stream = await model.generate_content_async(prompt, stream=True)
FsCall ==
    /\ fs_pc = "call"
    /\ fs_pc' = "next_chunk"
    /\ UNCHANGED <<fs_payload, fs_output, fs_buffer, fs_events, fs_frames,
                   fs_raised, fs_propagated>>
    /\ UNCHANGED exceptSearch
    /\ UNCHANGED startVars

\* the model call raises before any chunk
FsCallRaises ==
    /\ fs_pc = "call"
    /\ FsExcept("call")
    /\ UNCHANGED <<fs_payload, fs_output, fs_buffer>>
    /\ UNCHANGED exceptSearch
    /\ UNCHANGED startVars

\* a chunk arrives: buffer += chunk.text, then the code fences are removed
FsChunk ==
    /\ fs_pc = "next_chunk"
    /\ fs_output # << >>
    /\ fs_buffer' = CleanBuffer(fs_buffer \o Head(fs_output))
    /\ fs_output' = Tail(fs_output)
    /\ fs_pc' = "parse"
    /\ UNCHANGED <<fs_payload, fs_events, fs_frames, fs_raised, fs_propagated>>
    /\ UNCHANGED exceptSearch
    /\ UNCHANGED startVars

\* the model stream raises instead of delivering its next chunk or its end
FsStreamRaises ==
    /\ fs_pc = "next_chunk"
    /\ FsExcept("stream")
    /\ UNCHANGED <<fs_payload, fs_output, fs_buffer>>
    /\ UNCHANGED exceptSearch
    /\ UNCHANGED startVars

\* the while loop decodes an object and yields it
FsParseYield ==
    /\ fs_pc = "parse"
    /\ ParseStep(fs_buffer).kind = "yield"
    /\ Yield(ParseStep(fs_buffer).data)
    /\ fs_buffer' = ParseStep(fs_buffer).buffer
    /\ UNCHANGED <<fs_pc, fs_payload, fs_output, fs_raised, fs_propagated>>
    /\ UNCHANGED exceptSearch
    /\ UNCHANGED startVars

\* the while loop is left: the parser waits for the next chunk
FsParseWait ==
    /\ fs_pc = "parse"
    /\ ParseStep(fs_buffer).kind = "wait"
    /\ fs_pc' = "next_chunk"
    /\ UNCHANGED <<fs_payload, fs_output, fs_buffer, fs_events, fs_frames,
                   fs_raised, fs_propagated>>
    /\ UNCHANGED exceptSearch
    /\ UNCHANGED startVars

\* processing the decoded object raises (KeyError, AttributeError)
FsParseRaises ==
    /\ fs_pc = "parse"
    /\ ParseStep(fs_buffer).kind = "raise"
    /\ FsExcept("event")
    /\ UNCHANGED <<fs_payload, fs_output, fs_buffer>>
    /\ UNCHANGED exceptSearch
    /\ UNCHANGED startVars

\* the model stream is exhausted: the generator returns
FsStreamEnd ==
    /\ fs_pc = "next_chunk"
    /\ fs_output = << >>
    /\ fs_pc' = "returned"
    /\ UNCHANGED <<fs_payload, fs_output, fs_buffer, fs_events, fs_frames,
                   fs_raised, fs_propagated>>
    /\ UNCHANGED exceptSearch
    /\ UNCHANGED startVars

\* variant of FsDone: the response ends without the closing frame
FsDoneOmitted ==
    /\ fs_pc = "returned"
    /\ fs_pc' = "done"
    /\ UNCHANGED <<fs_payload, fs_output, fs_buffer, fs_events, fs_frames,
                   fs_raised, fs_propagated>>
    /\ UNCHANGED exceptSearch
    /\ UNCHANGED startVars

\* yield f"data: {json.dumps({'type': 'done'})}\n\n"
FsDone ==
    /\ fs_pc = "returned"
    /\ fs_frames' = Append(fs_frames, Frame(DoneEvent))
    /\ fs_pc' = "done"
    /\ UNCHANGED <<fs_payload, fs_output, fs_buffer, fs_events, fs_raised,
                   fs_propagated>>
    /\ UNCHANGED exceptSearch
    /\ UNCHANGED startVars

NextSearch ==
    \/ FsRequest
    \/ FsCall
    \/ FsCallRaises
    \/ FsChunk
    \/ FsStreamRaises
    \/ FsParseYield
    \/ FsParseWait
    \/ FsParseRaises
    \/ FsStreamEnd
    \/ FsDone

SpecSearch == InitSearch /\ [][NextSearch]_vars

-----------------------------------------------------------------------------
(* Properties of the RAG answer stream and of the chat turn (Spec) *)

\* stream_rag_response has yielded its last event
RagStreamEnded(t) == pc[t] \in {"persist", "done", "persist_failed"}

\* C1: once retrieval has returned, the events of stream_rag_response are
\* zero or more text events, then exactly one citations event, and nothing
\* after it, also when generation raised after some text events
C1_TextThenOneCitations ==
    \A t \in Turns :
        LET ev == rag_events[t]
            n == Len(ev)
        IN  /\ \A i \in 1..(n - 1) : ev[i].type = "text"
            /\ RagStreamEnded(t) => n >= 1 /\ ev[n].type = "citations"
            /\ (n >= 1 /\ ev[n].type = "citations")
                   => (RagStreamEnded(t) \/ pc[t] = "cancelled")

\* generation raised after at least one text event and the stream has ended
C1_Witness ==
    \E t \in Turns :
        gen_failed[t] /\ pc[t] = "persist" /\ Len(rag_events[t]) >= 3

\* C2: if the retrieval step raises, the exception is caught: the stream
\* yields the apology text event, then an empty citations event, and no
\* exception reaches the caller
C2_RetrievalFailureCaught ==
    \A t \in Turns :
        retrieval_failed[t] =>
            /\ ~rag_raised[t]
            /\ Len(rag_events[t]) \in {1, 2}
            /\ rag_events[t][1] = TextEvent(error_message)
            /\ Len(rag_events[t]) = 2 => rag_events[t][2] = CitationsEvent(<< >>)

\* the rows of the assistant Messages a chat request committed
AssistantRows(t) ==
    { i \in DOMAIN db_messages :
        db_messages[i].role = "assistant" /\ db_messages[i].turn = t }

\* C3: if the client disconnects after k >= 0 fragments were sent, an
\* assistant Message holding the concatenation of those fragments is still
\* committed, through a session independent of the request's session
C3_DisconnectStillPersists ==
    \A t \in Turns :
        disconnected[t] =>
            \E i \in AssistantRows(t) :
                /\ db_messages[i].content = Concat(sent[t])
                /\ db_messages[i].session = PostStreamSession

\* the user Message of a chat request is a committed row
UserPersisted(t) ==
    \E i \in DOMAIN db_messages :
        /\ db_messages[i].role = "user"
        /\ db_messages[i].turn = t
        /\ db_messages[i].content = req[t].content
        /\ db_messages[i].dialogue_session_id = req[t].dialogue_id

\* the response was returned: the RAG stream is about to be, or was, opened
StreamOpened(t) ==
    pc[t] \in {"responding", "retrieve", "send_message", "streaming",
               "except_citations", "persist", "done", "persist_failed",
               "crashed", "cancelled"}

\* C4: the user Message is committed before the RAG stream is opened, and
\* it stays persisted whatever happens afterwards
C4_UserMessageFirst ==
    [][\A t \in Turns :
          /\ StreamOpened(t)' => UserPersisted(t)'
          /\ UserPersisted(t) => UserPersisted(t)']_vars

\* a request whose retrieval raised, with its user Message persisted
C4_Witness ==
    \E t \in Turns : pc[t] = "crashed" /\ UserPersisted(t)

\* C5: when the chat stream runs to completion, exactly one assistant
\* Message is committed for the turn, after the last fragment was sent; its
\* content is the concatenation of the fragments sent, its Citations are
\* those of the citations event, and it is committed through the newly
\* opened session, not the request's session
C5_OneAssistantCommit ==
    \A t \in Turns :
        /\ Cardinality(AssistantRows(t)) <= 1
        /\ AssistantRows(t) # {} => pc[t] = "done"
        /\ pc[t] = "done" =>
              /\ Cardinality(AssistantRows(t)) = 1
              /\ \A i \in AssistantRows(t) :
                    /\ db_messages[i].content = Concat(sent[t])
                    /\ db_messages[i].citations =
                           rag_events[t][Len(rag_events[t])].data
                    /\ db_messages[i].dialogue_session_id = req[t].dialogue_id
                    /\ db_messages[i].session = PostStreamSession
                    /\ db_messages[i].session # RequestSession

\* a completed turn that sent two fragments and persisted citations
C5_Witness ==
    \E t \in Turns :
        /\ pc[t] = "done"
        /\ Len(sent[t]) >= 2
        /\ Len(final_citations[t]) >= 1
        /\ AssistantRows(t) # {}

-----------------------------------------------------------------------------
(* Properties of the figure-search stream (SpecSearch) *)

\* event.get("type")
TypeOf(event) == Get(event, TypeKey)

\* the model stream ended, or processing a decoded object raised: the
\* parser saw its input as the model produced it
ParserRanOut == fs_pc \in {"returned", "done"} /\ fs_raised \in {"none", "event"}

\* C6: for a payload of non-nested objects, every fragmentation yields the
\* same decoded objects, with the same field values, as the payload fed as
\* one single fragment
C6_FragmentationInvariant ==
    (fs_payload \in NonNestedOutputs /\ ParserRanOut)
        => fs_events = Feed(<< fs_payload >>, << >>)

\* no event of type match is ever yielded: a decoded object never holds an
\* object as its payload, since the decoded span ends at the first closing
\* brace, and .get on any other payload raises
NoMatchEventYielded ==
    \A i \in 1..Len(fs_events) : TypeOf(fs_events[i]) # JStr(MatchType)

\* C8: the frames delivered are zero or more log events, then exactly one
\* match or error event, then done
C8_LogsThenOneTerminal ==
    fs_pc = "done" =>
        LET n == Len(fs_frames)
        IN  /\ n >= 2
            /\ fs_frames[n] = Frame(DoneEvent)
            /\ TypeOf(fs_frames[n - 1].event) \in {JStr(MatchType), JStr(ErrorType)}
            /\ \A i \in 1..(n - 2) : TypeOf(fs_frames[i].event) = JStr(LogType)

\* the positions of the done frames
DoneFrames == { i \in 1..Len(fs_frames) : fs_frames[i] = Frame(DoneEvent) }

\* C9: the response stream ends with a done frame as its last frame,
\* exactly once, whatever preceded it
C9_DoneLastOnce ==
    /\ fs_pc = "done" => (Len(fs_frames) >= 1 /\ DoneFrames = {Len(fs_frames)})
    /\ fs_pc # "done" => DoneFrames = {}
    /\ fs_pc \notin {"crashed"}

\* a response that ended after a gateway exception that followed an event
C9_Witness ==
    fs_pc = "done" /\ fs_raised = "stream" /\ Len(fs_frames) >= 3

\* C10: when the model call, the model stream or the processing of an event
\* raises, the generator yields exactly one error event, nothing after it,
\* and raises nothing to its caller
C10_SingleErrorNoRaise ==
    [][/\ (fs_raised = "none" /\ fs_raised' # "none") =>
              /\ fs_events' = Append(fs_events, GatewayError)
              /\ fs_pc' = "returned"
              /\ ~fs_propagated'
       /\ fs_raised # "none" =>
              /\ fs_events' = fs_events
              /\ fs_pc' \in {"returned", "done"}
              /\ ~fs_propagated']_vars

\* the processing of a decoded event raised and the response has ended
C10_Witness ==
    fs_pc = "done" /\ fs_raised = "event" /\ ~fs_propagated

-----------------------------------------------------------------------------
(* Properties of the parser's buffer (SpecSearch) *)

\* the buffer holds a '{' and a '}' after it, and json.loads raises
\* JSONDecodeError on the span from the one to the other
SpanFails(buffer) ==
    LET start_index == Find(buffer, "{", 1)
        end_index == IF start_index = 0 THEN 0 ELSE Find(buffer, "}", start_index)
    IN  /\ end_index # 0
        /\ ~JsonLoads(SubSeq(buffer, start_index, end_index)).ok

\* where the JSON object that starts at the first '{' of the buffer ends,
\* 0 if the buffer does not hold the whole object
ObjectEnd(buffer) ==
    LET start_index == Find(buffer, "{", 1)
        ends == { e \in start_index..Len(buffer) :
                    start_index # 0 /\ JsonLoads(SubSeq(buffer, start_index, e)).ok }
    IN  IF ends = {} THEN 0 ELSE CHOOSE e \in ends : \A f \in ends : e <= f

\* C22: while the span from the first '{' to the first '}' after it does
\* not parse, the parser yields nothing and leaves the buffer as it is; when
\* the next fragment completes the object that starts at that '{', the
\* parser yields that object and removes from the buffer the object's text
\* and what preceded it, nothing else
C22_WaitsThenYieldsCompleted ==
    [][ /\ (fs_pc = "parse" /\ SpanFails(fs_buffer)) =>
              /\ fs_events' = fs_events
              /\ fs_buffer' = fs_buffer
        /\ (fs_pc = "next_chunk" /\ fs_pc' = "parse" /\ SpanFails(fs_buffer)
               /\ ObjectEnd(fs_buffer') # 0) =>
              LET r == ParseStep(fs_buffer')
                  start_index == Find(fs_buffer', "{", 1)
                  object == SubSeq(fs_buffer', start_index, ObjectEnd(fs_buffer'))
              IN  /\ r.kind = "yield"
                  /\ r.data = ProcessData(JsonLoads(object).val).data
                  /\ r.buffer = From(fs_buffer', ObjectEnd(fs_buffer') + 1)
      ]_vars

\* the event the prompt's step 4 stands for: a match with the candidate's data
MatchEvent(figure) ==
    Dict2(TypeKey, JStr(MatchType), PayloadKey, JObj(Canonical(figure)))

\* C23: when the model outputs a log object and then a match object in the
\* prescribed format with a candidate's name, and nothing raises, the
\* events yielded by the time the stream ends are that log event and then a
\* match event for that candidate
C23_PrescribedMatchYielded ==
    (fs_payload \in PrescribedOutputs /\ fs_pc \in {"returned", "done"}
        /\ fs_raised = "none")
        => /\ Len(fs_events) >= 2
           /\ fs_events[1] = Dict2(TypeKey, JStr(LogType), PayloadKey, JStr(<< "x" >>))
           /\ fs_events[2] = MatchEvent(Figures[1])

-----------------------------------------------------------------------------
(* QdrantDatabase.search called on a collection *)

\* the points a collection is made of
QueryPoints ==
    { Pt("Socrates", "Apology", "q1"), Pt("Cleopatra", "Plutarch", "q2"),
      Pt("Socrates", "Crito", "q3") }

\* the figure_name argument: two indexed figures and one that has no point
FigureNames == {"Socrates", "Cleopatra", "Plato"}

\* the collections: every sequence of at most MaxPoints points
QueryIndexes ==
    UNION { [1..n -> QueryPoints] : n \in 0..MaxPoints }

InitQuery ==
    /\ index \in QueryIndexes
    /\ db_messages = << >>
    /\ QueryOff
    /\ ReadOff
    /\ BillingOff
    /\ ChatOff
    /\ SearchOff
    /\ ChunkOff
    /\ IngestOff
    /\ StartOff

\* search(query, figure_name, limit): the query is embedded, the collection
\* is searched with the figure_name filter and the list is returned as it is
QdrantSearch(caller, figure_name, limit) ==
    /\ sr_call' = [figure_name |-> figure_name, limit |-> limit,
                   caller |-> caller, raised |-> FALSE]
    /\ sr_result' = Search(index, figure_name, limit)
    /\ UNCHANGED index
    /\ UNCHANGED exceptQuery

\* a caller of the vector index client calls search with its own arguments
SearchCall ==
    \E figure_name \in FigureNames, limit \in 1..MaxLimit :
        QdrantSearch("client", figure_name, limit)

\* retrieved_docs = await qdrant_db.search(query=..., figure_name=..., limit=3)
RagSearchCall ==
    \E figure_name \in FigureNames :
        QdrantSearch("stream_rag_response", figure_name, RagLimit)

\* the embedding of the query or the search of the collection raises
SearchCallRaises ==
    /\ \E figure_name \in FigureNames, limit \in 1..MaxLimit :
         sr_call' = [figure_name |-> figure_name, limit |-> limit,
                     caller |-> "client", raised |-> TRUE]
    /\ sr_result' = << >>
    /\ UNCHANGED index
    /\ UNCHANGED exceptQuery

NextQuery ==
    \/ SearchCall
    \/ RagSearchCall
    \/ SearchCallRaises

SpecQuery == InitQuery /\ [][NextQuery]_vars

-----------------------------------------------------------------------------
(* Properties of the chat turn's persistence (Spec) *)

\* C18: when the commit of the assistant Message fails at the end of a chat
\* turn, nothing is added to the persisted rows, so neither the assistant
\* Message nor its Citations exist then or later, and the user Message of
\* the turn, committed before the stream, is and stays persisted
C18_FailedCommitRollsBack ==
    [][ \A t \in Turns :
          /\ (pc[t] = "persist" /\ pc'[t] = "persist_failed") =>
                /\ db_messages' = db_messages
                /\ UserPersisted(t)
          /\ pc'[t] = "persist_failed" =>
                /\ AssistantRows(t)' = {}
                /\ UserPersisted(t)'
      ]_vars

\* the commit of an answer with text and citations failed, while the other
\* chat turn committed its own assistant Message
C18_Witness ==
    \E t, u \in Turns :
        /\ pc[t] = "persist_failed"
        /\ final_response_text[t] # << >>
        /\ final_citations[t] # << >>
        /\ u # t
        /\ pc[u] = "done"
        /\ AssistantRows(u) # {}

\* C20: when generation succeeds, the citations event holds one Citation per
\* retrieved document, in retrieval order, with the document's source_name
\* as source and its text as text_quote, so at most 3; when nothing was
\* retrieved the stream is still the model's text events followed by an
\* empty citations event, and nothing is raised
C20_OneCitationPerDocument ==
    \A t \in Turns :
        (RagStreamEnded(t) /\ ~gen_failed[t]) =>
            LET ev == rag_events[t]
                last == ev[Len(ev)]
            IN  /\ last.type = "citations"
                /\ Len(last.data) = Len(retrieved[t])
                /\ Len(last.data) <= 3
                /\ \A i \in 1..Len(retrieved[t]) :
                       /\ last.data[i].source = retrieved[t][i].source_name
                       /\ last.data[i].text_quote = retrieved[t][i].text
                /\ retrieved[t] = << >> =>
                       /\ last.data = << >>
                       /\ ~rag_raised[t]
                       /\ Len(ev) - 1 <= Len(chunks_recv[t])
                       /\ \A i \in 1..(Len(ev) - 1) :
                              /\ ev[i].type = "text"
                              /\ ev[i].content \in ChunkTexts \ { << >> }

\* generation succeeded on a collection with more than three points of the
\* figure: text was yielded and three documents are cited
C20_Witness ==
    \E t \in Turns :
        /\ RagStreamEnded(t)
        /\ ~gen_failed[t]
        /\ Len(SelectSeqOf(index, FigureOf(t))) > 3
        /\ Len(rag_events[t]) = 3
        /\ Len(rag_events[t][3].data) = 3

-----------------------------------------------------------------------------
(* Properties of the answer's text events (Spec) *)

\* the fragments of the generation stream that carry text, in order
Fragments(t) == SelectSeq(chunks_recv[t], LAMBDA x : x # << >>)

\* one text event per fragment
TextEvents(frags) == [i \in 1..Len(frags) |-> TextEvent(frags[i])]

\* C21: when generation raises after N >= 0 text events, the stream is those
\* N text events, each once, then the fixed apology text event, then a
\* citations event with an empty sequence, however many documents were
\* retrieved; the assistant Message persisted for the turn holds the N
\* fragments followed by the apology, and no Citation
C21_ApologyThenEmptyCitations ==
    \A t \in Turns :
        gen_failed[t] =>
            LET texts == TextEvents(Fragments(t))
                apology == << TextEvent(error_message) >>
            IN  /\ rag_events[t] \in
                      { texts \o apology,
                        texts \o apology \o << CitationsEvent(<< >>) >> }
                /\ rag_events[t] = texts \o apology
                      => pc[t] \in {"except_citations", "cancelled"}
                /\ final_response_text[t] = Concat(Fragments(t)) \o error_message
                /\ pc[t] = "done" =>
                      /\ Cardinality(AssistantRows(t)) = 1
                      /\ \A i \in AssistantRows(t) :
                            /\ db_messages[i].content =
                                   Concat(Fragments(t)) \o error_message
                            /\ db_messages[i].citations = << >>

\* generation raised after a text event, two documents or more had been
\* retrieved, and the assistant Message of the turn is committed
C21_Witness ==
    \E t \in Turns :
        /\ gen_failed[t]
        /\ pc[t] = "done"
        /\ Len(Fragments(t)) >= 1
        /\ Len(retrieved[t]) >= 2

\* the text events a turn's stream has yielded so far, in order
TextPart(t) == SelectSeq(rag_events[t], LAMBDA e : e.type = "text")

\* the text events and the bodies of a turn are those of the fragments
\* frags, one each and in the same order, followed only by the apology
\* when generation raised
EmittedAre(t, frags) ==
    LET expected == TextEvents(frags)
                      \o (IF gen_failed[t] THEN << TextEvent(error_message) >>
                          ELSE << >>)
    IN  /\ TextPart(t) = expected
        /\ sent[t] = [i \in 1..Len(expected) |-> expected[i].content]

\* C25 as stated: every fragment received from the model is a text event of
\* its own and a body of its own, unmodified and in generation order
C25_EveryFragmentEmitted ==
    \A t \in Turns : EmittedAre(t, chunks_recv[t])

\* C25: every fragment received from the model whose text is not empty is
\* a text event of its own and a body of its own, unmodified and in
\* generation order; none of them is dropped, merged, reordered or repeated
C25_NonEmptyFragmentsEmitted ==
    \A t \in Turns : EmittedAre(t, Fragments(t))

\* a completed turn whose stream delivered two different fragments, both
\* written to the client
C25_Witness ==
    \E t \in Turns :
        /\ pc[t] = "done"
        /\ ~gen_failed[t]
        /\ Len(chunks_recv[t]) = 2
        /\ Len(sent[t]) = 2
        /\ sent[t][1] # sent[t][2]

-----------------------------------------------------------------------------
(* Properties of interleaved chat turns (Spec) *)

\* the rows of the user Messages a chat request committed
UserRows(t) ==
    { i \in DOMAIN db_messages :
        db_messages[i].role = "user" /\ db_messages[i].turn = t }

\* C28: however the chat turns interleave, a commit only adds rows to the
\* persisted Messages, and a turn that has run to completion has persisted
\* exactly one user Message and exactly one assistant Message, the
\* assistant Message after the user Message
C28_InterleavedTurnsKeepMessages ==
    [][ /\ Len(db_messages') >= Len(db_messages)
        /\ SubSeq(db_messages', 1, Len(db_messages)) = db_messages
        /\ \A t \in Turns :
              pc'[t] = "done" =>
                 /\ Cardinality(UserRows(t)') = 1
                 /\ Cardinality(AssistantRows(t)') = 1
                 /\ \A i \in UserRows(t)' : \A j \in AssistantRows(t)' : i < j
      ]_vars

\* two turns on the same DialogueSession have run to completion, the whole
\* of the one between the two commits of the other
C28_Witness ==
    \E t, u \in Turns :
        /\ t # u
        /\ pc[t] = "done" /\ pc[u] = "done"
        /\ req[t].dialogue_id = req[u].dialogue_id
        /\ \E i \in UserRows(t), j \in AssistantRows(t) :
              \E k \in UserRows(u), l \in AssistantRows(u) :
                  i < k /\ k < l /\ l < j

-----------------------------------------------------------------------------
(* Properties of the access to a session (SpecAccess) *)

\* the session exists and its project belongs to the user
Owns(user, dialogue_id) ==
    \E s \in DialogueSessions : s.id = dialogue_id /\ s.user_id = user

\* C26: a chat request goes past the lookup exactly when the session's
\* project belongs to the requesting user; otherwise it ends with 404, no
\* Message of it is persisted, and no retrieval or generation is started
\* for it. A request for the messages of a session returns them exactly when
\* the session's project belongs to the requesting user, and 404 with no
\* message otherwise
C26_OnlyOwnerPostsAndReads ==
    /\ \A t \in Turns :
          /\ pc[t] # "idle" =>
                (pc[t] = "http404" <=> ~Owns(req[t].user, req[t].dialogue_id))
          /\ pc[t] = "http404" =>
                /\ \A i \in DOMAIN db_messages : db_messages[i].turn # t
                /\ retrieved[t] = << >> /\ ~retrieval_failed[t]
                /\ chunks_recv[t] = << >> /\ ~gen_failed[t]
                /\ rag_events[t] = << >> /\ sent[t] = << >>
    /\ \A i \in DOMAIN db_messages :
          db_messages[i].turn \in Turns =>
             /\ Owns(req[db_messages[i].turn].user, db_messages[i].dialogue_session_id)
             /\ db_messages[i].dialogue_session_id = req[db_messages[i].turn].dialogue_id
    /\ gm_call # NoRead =>
          IF Owns(gm_call.user, gm_call.dialogue_id)
          THEN /\ gm_result.status = 200
               /\ gm_result.messages # << >>
               /\ \A i \in 1..Len(gm_result.messages) :
                      gm_result.messages[i].dialogue_session_id = gm_call.dialogue_id
          ELSE gm_result = [status |-> 404, messages |-> << >>]

\* a user posted to, and then asked for the messages of, a session of
\* another user's project, which holds a message
C26_Witness ==
    \E t \in Turns :
        /\ pc[t] = "http404"
        /\ \E s \in DialogueSessions :
               /\ s.id = req[t].dialogue_id
               /\ s.user_id # req[t].user
               /\ gm_call = [user |-> req[t].user, dialogue_id |-> s.id]
               /\ SessionMessages(s.id) # << >>
        /\ gm_result.status = 404

-----------------------------------------------------------------------------
(* Properties of the vector search (SpecQuery) *)

\* the points of the collection the filter of the last call matches
Matching == SelectSeqOf(index, sr_call.figure_name)

\* C11: whatever the collection holds, a call search(query, figure_name, limit)
\* returns at most limit entries, every one of them with the requested
\* figure_name in its payload, so nothing at all when no point matches; and
\* stream_rag_response calls it with limit 3
C11_FilteredAndLimited ==
    sr_call # NoCall =>
        /\ Len(sr_result) <= sr_call.limit
        /\ \A i \in 1..Len(sr_result) :
               sr_result[i].figure_name = sr_call.figure_name
        /\ Matching = << >> => sr_result = << >>
        /\ sr_call.caller = "stream_rag_response" => sr_call.limit = 3

\* the chat pipeline searched a collection that holds another figure's point
\* and more matching points than the limit, and three entries came back
C11_Witness ==
    /\ sr_call.caller = "stream_rag_response"
    /\ ~sr_call.raised
    /\ Len(Matching) > sr_call.limit
    /\ Len(Matching) < Len(index)
    /\ Len(sr_result) = 3

-----------------------------------------------------------------------------
(* chunk_text of the ingestion script *)

Alphabet == << "A", "B", "C", "D", "E", "F", "G", "H", "I", "J", "K", "L", "M" >>

\* the text made of the first n letters, all different
Letters(n) == [i \in 1..n |-> Alphabet[i]]

\* text[start:end] for 0 <= start and 0 <= end
Slice(text, start, end) ==
    SubSeq(text, start + 1, IF end < Len(text) THEN end ELSE Len(text))

RECURSIVE chunk_loop_no_overlap(_, _, _, _)
chunk_loop_no_overlap(text, chunk_size, overlap, start) ==
    IF ~(start < Len(text)) THEN << >>
    ELSE LET end == start + chunk_size
         IN  << Slice(text, start, end) >>
                 \o chunk_loop_no_overlap(text, chunk_size, overlap, start + chunk_size)

\* variant of chunk_text: start advances by chunk_size
chunk_text_no_overlap(text, chunk_size, overlap) ==
    IF text = << >> THEN << >>
    ELSE chunk_loop_no_overlap(text, chunk_size, overlap, 0)

RECURSIVE chunk_loop(_, _, _, _)
\* while start < len(text): end = start + chunk_size;
\* chunks.append(text[start:end]); start += chunk_size - overlap
chunk_loop(text, chunk_size, overlap, start) ==
    IF ~(start < Len(text)) THEN << >>
    ELSE LET end == start + chunk_size
         IN  << Slice(text, start, end) >>
                 \o chunk_loop(text, chunk_size, overlap, start + chunk_size - overlap)

\* chunk_text(text, chunk_size, overlap)
chunk_text(text, chunk_size, overlap) ==
    IF text = << >> THEN << >>
    ELSE chunk_loop(text, chunk_size, overlap, 0)

\* the arguments: a text of up to MaxTextLen letters, 0 <= overlap < chunk_size
InitChunk ==
    /\ ck_pc = "ready"
    /\ ck_text \in { Letters(n) : n \in 0..MaxTextLen }
    /\ ck_size \in 1..MaxChunkSize
    /\ ck_overlap \in 0..(ck_size - 1)
    /\ ck_chunks = << >>
    /\ index = << >>
    /\ db_messages = << >>
    /\ ChatOff
    /\ SearchOff
    /\ QueryOff
    /\ ReadOff
    /\ BillingOff
    /\ StartOff
    /\ IngestOff

\* the call chunk_text(text, chunk_size, overlap) returns
ChunkText ==
    /\ ck_pc = "ready"
    /\ ck_chunks' = chunk_text(ck_text, ck_size, ck_overlap)
    /\ ck_pc' = "returned"
    /\ UNCHANGED <<ck_text, ck_size, ck_overlap>>
    /\ UNCHANGED exceptChunk

NextChunk == ChunkText

SpecChunk == InitChunk /\ [][NextChunk]_vars

-----------------------------------------------------------------------------
(* QdrantDatabase._chunk_text: textwrap.wrap(text, width=chunk_size,        *)
(* break_long_words=False, replace_whitespace=False) on texts of letters    *)
(* and blanks                                                               *)

\* chunk.strip() == ''
IsBlank(chunk) == \A i \in 1..Len(chunk) : chunk[i] \in Whitespace

RECURSIVE SplitRuns(_)
\* TextWrapper._split: the text cut into words and runs of whitespace
SplitRuns(text) ==
    IF text = << >> THEN << >>
    ELSE LET same(i) == (text[i] \in Whitespace) = (text[1] \in Whitespace)
             n == CHOOSE k \in 1..Len(text) :
                      /\ \A i \in 1..k : same(i)
                      /\ k = Len(text) \/ ~same(k + 1)
         IN  << SubSeq(text, 1, n) >> \o SplitRuns(From(text, n + 1))

RECURSIVE wrap_chunks(_, _, _)
\* TextWrapper._wrap_chunks, one line per call: whitespace that starts a
\* line after the first is dropped, chunks are taken while they fit, a chunk
\* longer than the width goes whole on a line of its own
\* (break_long_words=False), and whitespace that ends the line is dropped
wrap_chunks(chunks, width, lines) ==
    IF chunks = << >> THEN lines
    ELSE LET rest == IF IsBlank(Head(chunks)) /\ lines # << >>
                     THEN Tail(chunks) ELSE chunks
             fits(k) == Len(Concat(SubSeq(rest, 1, k))) <= width
             fit == CHOOSE k \in 0..Len(rest) :
                        fits(k) /\ (k = Len(rest) \/ ~fits(k + 1))
             n == IF fit = 0 /\ rest # << >> THEN 1 ELSE fit
             taken == SubSeq(rest, 1, n)
             cur_line == IF taken # << >> /\ IsBlank(taken[Len(taken)])
                         THEN SubSeq(taken, 1, Len(taken) - 1) ELSE taken
         IN  wrap_chunks(SubSeq(rest, n + 1, Len(rest)), width,
                         IF cur_line # << >> THEN Append(lines, Concat(cur_line))
                         ELSE lines)

\* _chunk_text(text, chunk_size, chunk_overlap): chunk_overlap is not used
_chunk_text(text, chunk_size, chunk_overlap) ==
    IF text = << >> THEN << >>
    ELSE wrap_chunks(SplitRuns(text), chunk_size, << >>)

\* the texts both chunkers are run on: words of the letter a and blanks
BioTexts == UNION { [1..n -> {"a", " "}] : n \in 0..MaxBioLen }

InitChunkers ==
    /\ ck_pc = "ready"
    /\ ck_text \in BioTexts
    /\ ck_size \in 1..MaxChunkSize
    /\ ck_overlap \in 0..(ck_size - 1)
    /\ ck_chunks = << >>
    /\ index = << >>
    /\ db_messages = << >>
    /\ ChatOff
    /\ SearchOff
    /\ QueryOff
    /\ ReadOff
    /\ BillingOff
    /\ StartOff
    /\ IngestOff

\* the call self._chunk_text(text, chunk_size, chunk_overlap) returns
BioChunkText ==
    /\ ck_pc = "ready"
    /\ ck_chunks' = _chunk_text(ck_text, ck_size, ck_overlap)
    /\ ck_pc' = "wrapped"
    /\ UNCHANGED <<ck_text, ck_size, ck_overlap>>
    /\ UNCHANGED exceptChunk

NextChunkers == ChunkText \/ BioChunkText

SpecChunkers == InitChunkers /\ [][NextChunkers]_vars

\* C24: whatever the text, no chunk returned by chunk_text or by
\* _chunk_text has more characters than the chunk size asked for
C24_NoChunkExceedsSize ==
    ck_pc \in {"returned", "wrapped"} =>
        \A k \in 1..Len(ck_chunks) : Len(ck_chunks[k]) <= ck_size

-----------------------------------------------------------------------------
(* Properties of the chunker (SpecChunk) *)

\* C12: chunk_text("ABCDEFGHIJ", chunk_size=4, overlap=1) returns exactly
\* ["ABCD", "DEFG", "GHIJ"]: no chunk follows the one that ends at the end of
\* the text
C12_ScenarioThreeChunks ==
    (ck_pc = "returned" /\ ck_text = Letters(10) /\ ck_size = 4 /\ ck_overlap = 1)
        => ck_chunks = << << "A", "B", "C", "D" >>, << "D", "E", "F", "G" >>,
                          << "G", "H", "I", "J" >> >>

\* ceil(a / b) for b > 0
CeilDiv(a, b) == -((-a) \div b)

Abs(x) == IF x < 0 THEN -x ELSE x

\* C13: for every text T and 0 <= O < S, the number of chunks differs from
\* ceil((len(T) - O) / (S - O)) by at most 1
C13_ChunkCountWithinOne ==
    ck_pc = "returned" =>
        Abs(Len(ck_chunks)
              - CeilDiv(Len(ck_text) - ck_overlap, ck_size - ck_overlap)) <= 1

\* the position of a letter in the text (the letters of a text are all different)
PosIn(text, c) == CHOOSE i \in 1..Len(text) : text[i] = c

\* C14: for every text T and 0 <= O < S, the k-th chunk (from 0) is
\* T[k*(S-O) : k*(S-O)+S], the chunks start at increasing positions of T,
\* every index of T lies in some chunk, and the empty text gives no chunk
C14_ChunksAreWindows ==
    ck_pc = "returned" =>
        LET step == ck_size - ck_overlap
            n == Len(ck_chunks)
        IN  /\ \A k \in 0..(n - 1) :
                   ck_chunks[k + 1] = Slice(ck_text, k * step, k * step + ck_size)
            /\ \A k \in 1..n : ck_chunks[k] # << >>
            /\ \A j, k \in 1..n :
                   j < k => PosIn(ck_text, Head(ck_chunks[j]))
                               < PosIn(ck_text, Head(ck_chunks[k]))
            /\ \A i \in 1..Len(ck_text) :
                   \E k \in 1..n : \E m \in 1..Len(ck_chunks[k]) :
                       /\ ck_chunks[k][m] = ck_text[i]
                       /\ (k - 1) * step + m = i
            /\ ck_text = << >> => ck_chunks = << >>

\* chunk_text returned at least three overlapping chunks, the last one cut
\* short by the end of the text
C14_Witness ==
    /\ ck_pc = "returned"
    /\ ck_overlap > 0
    /\ Len(ck_chunks) >= 3
    /\ Len(ck_chunks[Len(ck_chunks)]) < ck_size
    /\ Len(ck_chunks[1]) = ck_size

-----------------------------------------------------------------------------
(* start_dialogue_session *)

\* the HistoricalFigure rows session.get can find
HistoricalFigures ==
    { [id |-> "f1", name |-> "Socrates"], [id |-> "f2", name |-> "Cleopatra"] }

\* request.figure_id: the id of a row, or an id no row has
FigureIds == {"f1", "f2", "f9"}

\* current_user: with an active project, or without one
StartUsers ==
    { [id |-> "alice", active_project_id |-> "p1"],
      [id |-> "carol", active_project_id |-> "none"] }

\* the ids the DialogueSession rows get, one per start request
StartIds == << "n1", "n2" >>

StartEnded == {"http400", "http404", "http500_session", "http500_retrieval",
               "http500_welcome", "returned"}

\* figure = await session.get(HistoricalFigure, request.figure_id)
GetFigure(figure_id) == { f \in HistoricalFigures : f.id = figure_id }

\* new_session.id of the request being handled
NewSessionId == StartIds[sd_req.n]

InitStart ==
    /\ index \in Indexes
    /\ db_messages = << >>
    /\ db_sessions = << >>
    /\ StartIdle("idle")
    /\ ChatOff
    /\ SearchOff
    /\ QueryOff
    /\ ReadOff
    /\ BillingOff
    /\ ChunkOff
    /\ IngestOff

\* variant of StartRequest: the figure is looked up only after the session
\* row has been committed
StartRequestCreatesFirst ==
    /\ sd_pc \in {"idle"} \cup StartEnded
    /\ sd_req.n < Len(StartIds)
    /\ \E u \in StartUsers, figure_id \in FigureIds :
         /\ sd_req' = [n |-> sd_req.n + 1, user |-> u.id,
                       active_project_id |-> u.active_project_id,
                       figure_id |-> figure_id]
         /\ IF u.active_project_id = "none"
            THEN /\ sd_pc' = "http400"
                 /\ sd_response' = [status |-> 400, body |-> "none"]
                 /\ UNCHANGED db_sessions
            ELSE /\ db_sessions' =
                      Append(db_sessions,
                             [id |-> StartIds[sd_req.n + 1],
                              project_id |-> u.active_project_id,
                              historical_figure_id |-> figure_id])
                 /\ IF GetFigure(figure_id) = {}
                    THEN /\ sd_pc' = "http404"
                         /\ sd_response' = [status |-> 404, body |-> "none"]
                    ELSE /\ sd_pc' = "retrieve"
                         /\ sd_response' = NoResponse
    /\ sd_retrieved' = << >>
    /\ sd_chunks' = 0
    /\ sd_events' = << >>
    /\ welcome_content' = << >>
    /\ welcome_citations' = << >>
    /\ UNCHANGED <<index, db_messages>>
    /\ UNCHANGED searchVars
    /\ UNCHANGED exceptStart

\* a request arrives: 400 without an active project, 404 when the figure
\* does not exist; otherwise the handler goes on to create the session
StartRequest ==
    /\ sd_pc \in {"idle"} \cup StartEnded
    /\ sd_req.n < Len(StartIds)
    /\ \E u \in StartUsers, figure_id \in FigureIds :
         /\ sd_req' = [n |-> sd_req.n + 1, user |-> u.id,
                       active_project_id |-> u.active_project_id,
                       figure_id |-> figure_id]
         /\ IF u.active_project_id = "none"
            THEN /\ sd_pc' = "http400"
                 /\ sd_response' = [status |-> 400, body |-> "none"]
            ELSE IF GetFigure(figure_id) = {}
            THEN /\ sd_pc' = "http404"
                 /\ sd_response' = [status |-> 404, body |-> "none"]
            ELSE /\ sd_pc' = "validated"
                 /\ sd_response' = NoResponse
    /\ sd_retrieved' = << >>
    /\ sd_chunks' = 0
    /\ sd_events' = << >>
    /\ welcome_content' = << >>
    /\ welcome_citations' = << >>
    /\ UNCHANGED <<index, db_messages, db_sessions>>
    /\ UNCHANGED searchVars
    /\ UNCHANGED exceptStart

\* session.add(new_session); await session.commit(): the row is committed,
\* or the commit raises and the request ends with a 500
StartCommitSession ==
    /\ sd_pc = "validated"
    /\ \/ /\ db_sessions' =
                Append(db_sessions,
                       [id |-> NewSessionId, project_id |-> sd_req.active_project_id,
                        historical_figure_id |-> sd_req.figure_id])
          /\ sd_pc' = "retrieve"
          /\ UNCHANGED sd_response
       \/ /\ UNCHANGED db_sessions
          /\ sd_pc' = "http500_session"
          /\ sd_response' = [status |-> 500, body |-> "none"]
    /\ UNCHANGED <<index, db_messages, sd_req, sd_retrieved, sd_chunks, sd_events,
                   welcome_content, welcome_citations>>
    /\ UNCHANGED searchVars
    /\ UNCHANGED exceptStart

\* variant of WelcomeConsume: a text event replaces welcome_content
WelcomeConsumeOverwrite(ev) ==
    /\ sd_events' = Append(sd_events, ev)
    /\ IF ev.type = "text"
       THEN /\ welcome_content' = ev.content
            /\ UNCHANGED welcome_citations
       ELSE /\ welcome_citations' = ev.data
            /\ UNCHANGED welcome_content

\* one pass of the "async for event in welcome_stream" body
WelcomeConsume(ev) ==
    /\ sd_events' = Append(sd_events, ev)
    /\ IF ev.type = "text"
       THEN /\ welcome_content' = welcome_content \o ev.content
            /\ UNCHANGED welcome_citations
       ELSE /\ welcome_citations' = ev.data
            /\ UNCHANGED welcome_content

\* the welcome stream starts: retrieved_docs = await qdrant_db.search(...,
\* figure_name=figure.name, limit=3), or the call raises and, nothing
\* catching it, the request ends with a 500
WelcomeRetrieve ==
    /\ sd_pc = "retrieve"
    /\ \/ /\ sd_retrieved' =
                Search(index,
                       (CHOOSE f \in HistoricalFigures : f.id = sd_req.figure_id).name,
                       RagLimit)
          /\ sd_pc' = "streaming"
          /\ UNCHANGED sd_response
       \/ /\ UNCHANGED sd_retrieved
          /\ sd_pc' = "http500_retrieval"
          /\ sd_response' = [status |-> 500, body |-> "none"]
    /\ UNCHANGED <<index, db_messages, db_sessions, sd_req, sd_chunks, sd_events,
                   welcome_content, welcome_citations>>
    /\ UNCHANGED searchVars
    /\ UNCHANGED exceptStart

\* async for chunk in stream: if chunk.text: yield text event
WelcomeChunk ==
    /\ sd_pc = "streaming"
    /\ sd_chunks < MaxChunks
    /\ sd_chunks' = sd_chunks + 1
    /\ \E x \in ChunkTexts :
         IF x # << >>
         THEN WelcomeConsume(TextEvent(x))
         ELSE UNCHANGED <<sd_events, welcome_content, welcome_citations>>
    /\ UNCHANGED <<index, db_messages, db_sessions, sd_pc, sd_req, sd_retrieved,
                   sd_response>>
    /\ UNCHANGED searchVars
    /\ UNCHANGED exceptStart

\* the generation call or stream raises: the except block yields the apology
\* and an empty citations event, both consumed by the handler
WelcomeGenRaises ==
    /\ sd_pc = "streaming"
    /\ sd_events' = sd_events \o << TextEvent(error_message), CitationsEvent(<< >>) >>
    /\ welcome_content' = welcome_content \o error_message
    /\ welcome_citations' = << >>
    /\ sd_pc' = "persist"
    /\ UNCHANGED <<index, db_messages, db_sessions, sd_req, sd_retrieved, sd_chunks,
                   sd_response>>
    /\ UNCHANGED searchVars
    /\ UNCHANGED exceptStart

\* the generation stream is exhausted: the citations event is consumed
WelcomeStreamEnd ==
    /\ sd_pc = "streaming"
    /\ WelcomeConsume(CitationsEvent(Citations(sd_retrieved)))
    /\ sd_pc' = "persist"
    /\ UNCHANGED <<index, db_messages, db_sessions, sd_req, sd_retrieved, sd_chunks,
                   sd_response>>
    /\ UNCHANGED searchVars
    /\ UNCHANGED exceptStart

\* the welcome Message is added and flushed, its citations are added, the
\* session commits and the DialogueSession is returned with status 201; or
\* flush or commit raises, get_session rolls back and the request ends with a 500
StartPersistWelcome ==
    /\ sd_pc = "persist"
    /\ \/ /\ db_messages' =
                Append(db_messages,
                       Message("assistant", welcome_content, NewSessionId,
                               welcome_citations, RequestSession, NewSessionId))
          /\ sd_pc' = "returned"
          /\ sd_response' =
                [status |-> 201,
                 body |-> [id |-> NewSessionId,
                           historical_figure_id |-> sd_req.figure_id]]
       \/ /\ UNCHANGED db_messages
          /\ sd_pc' = "http500_welcome"
          /\ sd_response' = [status |-> 500, body |-> "none"]
    /\ UNCHANGED <<index, db_sessions, sd_req, sd_retrieved, sd_chunks, sd_events,
                   welcome_content, welcome_citations>>
    /\ UNCHANGED searchVars
    /\ UNCHANGED exceptStart

NextStart ==
    \/ StartRequest
    \/ StartCommitSession
    \/ WelcomeRetrieve
    \/ WelcomeChunk
    \/ WelcomeGenRaises
    \/ WelcomeStreamEnd
    \/ StartPersistWelcome

SpecStart == InitStart /\ [][NextStart]_vars

-----------------------------------------------------------------------------
(* Properties of start_dialogue_session (SpecStart) *)

\* the persisted Message rows of the session the request created
WelcomeRows ==
    SelectSeq(db_messages, LAMBDA m : m.dialogue_session_id = NewSessionId)

RECURSIVE TextOf(_)
\* the contents of the text events of a stream, concatenated in order
TextOf(events) ==
    IF events = << >> THEN << >>
    ELSE (IF Head(events).type = "text" THEN Head(events).content ELSE << >>)
             \o TextOf(Tail(events))

\* C15: when start_dialogue_session returns a session, exactly one Message
\* of that session is persisted, of role assistant, with the concatenated
\* text events of the welcome stream as content and the data of its
\* citations event as Citations; the response holds the session only
C15_WelcomePersistedOnReturn ==
    sd_pc = "returned" =>
        /\ Len(WelcomeRows) = 1
        /\ WelcomeRows[1].role = "assistant"
        /\ WelcomeRows[1].content = TextOf(sd_events)
        /\ sd_events # << >>
        /\ sd_events[Len(sd_events)].type = "citations"
        /\ WelcomeRows[1].citations = sd_events[Len(sd_events)].data
        /\ \E r \in 1..Len(db_sessions) : db_sessions[r].id = NewSessionId
        /\ sd_response =
              [status |-> 201,
               body |-> [id |-> NewSessionId,
                         historical_figure_id |-> sd_req.figure_id]]

\* a second session was returned after a welcome stream of two text events
\* and a citations event that holds retrieved documents
C15_Witness ==
    /\ sd_pc = "returned"
    /\ sd_req.n = 2
    /\ Len(sd_events) = 3
    /\ sd_events[1].type = "text"
    /\ sd_events[2].type = "text"
    /\ sd_events[3].data # << >>
    /\ Len(db_messages) = 2

\* C27: whenever no start request is in flight, every persisted
\* DialogueSession has an assistant Message of its own persisted, also
\* after a start request that failed
C27_NoSessionWithoutWelcome ==
    sd_pc \in {"idle"} \cup StartEnded =>
        \A r \in 1..Len(db_sessions) :
            \E i \in 1..Len(db_messages) :
                /\ db_messages[i].dialogue_session_id = db_sessions[r].id
                /\ db_messages[i].role = "assistant"

-----------------------------------------------------------------------------
(* The API serving a figure search and start requests side by side *)

\* one figure search request (its model output delivered in one chunk) and
\* the start requests, all yet to arrive
InitApi ==
    /\ index = CHOOSE i \in Indexes : Len(i) = 5
    /\ db_messages = << >>
    /\ db_sessions = << >>
    /\ StartIdle("idle")
    /\ fs_pc = "idle"
    /\ fs_payload \in NonNestedOutputs
    /\ fs_output = << fs_payload >>
    /\ fs_buffer = << >>
    /\ fs_events = << >>
    /\ fs_frames = << >>
    /\ fs_raised = "none"
    /\ fs_propagated = FALSE
    /\ fs_tagged = << >>
    /\ ChatOff
    /\ QueryOff
    /\ ReadOff
    /\ BillingOff
    /\ ChunkOff
    /\ IngestOff

NextApi == NextSearch \/ NextStart

SpecApi == InitApi /\ [][NextApi]_vars

\* the start request that arrives is invalid: no active project, or no
\* HistoricalFigure has the figure id
InvalidStart(r) == r.active_project_id = "none" \/ GetFigure(r.figure_id) = {}

\* C17: validation errors come before any state change or model call: a
\* figure search with an empty query is answered 400 straight from the
\* arrival of the request and nothing follows it (no model call, no event,
\* no frame); a start request for an unknown figure id or by a user without
\* an active project is answered with a 4xx status, and neither on its
\* arrival nor afterwards is a DialogueSession or a Message created for it,
\* nor is the welcome stream started
C17_ValidationBeforeEffects ==
    [][ /\ (fs_pc' = "http400" /\ fs_pc # "http400") =>
              /\ fs_pc = "idle"
              /\ UNCHANGED <<fs_payload, fs_output, fs_buffer, fs_events,
                             fs_frames, fs_raised, fs_propagated>>
        /\ fs_pc = "http400" => UNCHANGED searchVars
        /\ (sd_req' # sd_req /\ InvalidStart(sd_req')) =>
              /\ sd_response'.status \in 400..499
              /\ sd_pc' \in {"http400", "http404"}
              /\ UNCHANGED <<db_sessions, db_messages>>
              /\ sd_events' = << >>
              /\ sd_retrieved' = << >>
        /\ (sd_req' = sd_req /\ sd_pc \in {"http400", "http404"}) =>
              UNCHANGED <<db_sessions, db_messages, sd_pc, sd_events,
                          sd_retrieved, sd_chunks, sd_response>>
      ]_vars

\* the figure search was refused for its empty query, and after a first
\* session was started a second start request named an unknown figure
C17_Witness ==
    /\ fs_pc = "http400"
    /\ sd_pc = "http404"
    /\ sd_req.n = 2
    /\ sd_response.status = 404
    /\ Len(db_sessions) = 1
    /\ Len(db_messages) = 1

-----------------------------------------------------------------------------
(* stream_figure_search on model output wrapped in markdown code fences *)

\* the objects of a model output: two plain ones, or one the parser rejects
FencedObjects ==
    { << << "{" >> \o Member(<< "a" >>, Quote(<< "x", " ", "y" >>)) \o << "}" >>,
         << "{" >> \o Member(<< "b" >>, Quote(<< "z" >>)) \o << "}" >> >>,
      << FlatObject(MatchType, << "S" >>) >> }

\* what the model puts before, between and after the objects
Markers == { << >>, Fence, FenceJson }

\* the characters of a text, each tagged as part of a marker or not
Tag(text, marker) == [i \in 1..Len(text) |-> [c |-> text[i], marker |-> marker]]

RECURSIVE Fenced(_, _, _)
\* the tagged model output: marker f[0], then every object k followed by
\* marker f[k]
Fenced(objects, f, k) ==
    IF k > Len(objects) THEN << >>
    ELSE Tag(objects[k], FALSE) \o Tag(f[k], TRUE) \o Fenced(objects, f, k + 1)

\* the text of a tagged fragment, with or without its marker characters
TextWith(frag) == [i \in 1..Len(frag) |-> frag[i].c]
TextWithout(frag) == TextWith(SelectSeq(frag, LAMBDA x : ~x.marker))

InitFence ==
    /\ \E objects \in FencedObjects :
         \E f \in [0..Len(objects) -> Markers] :
           \E cut \in Splits(Tag(f[0], TRUE) \o Fenced(objects, f, 1), MaxFragments) :
              /\ fs_payload = Concat([i \in 1..Len(cut) |-> TextWith(cut[i])])
              /\ fs_output = [i \in 1..Len(cut) |-> TextWith(cut[i])]
              /\ fs_tagged = cut
    /\ fs_pc = "idle"
    /\ fs_buffer = << >>
    /\ fs_events = << >>
    /\ fs_frames = << >>
    /\ fs_raised = "none"
    /\ fs_propagated = FALSE
    /\ index = << >>
    /\ db_messages = << >>
    /\ ChatOff
    /\ QueryOff
    /\ ReadOff
    /\ BillingOff
    /\ ChunkOff
    /\ IngestOff
    /\ StartOff

SpecFence == InitFence /\ [][NextSearch]_vars

\* the chunks of the model with the marker characters taken out
Unfenced == [i \in 1..Len(fs_tagged) |-> TextWithout(fs_tagged[i])]

\* C16: code-fence markers before, between or after the JSON objects, a
\* marker cut by a fragment boundary included, leave the events
\* stream_figure_search yields as they are for the same fragments without
\* the marker characters
C16_FencesChangeNoEvent ==
    ParserRanOut => fs_events = Feed(Unfenced, << >>)

\* the model wrapped two objects in fences, the opening marker was cut by
\* the fragment boundary, and both objects were yielded
C16_Witness ==
    /\ ParserRanOut
    /\ Len(fs_events) = 2
    /\ Len(fs_tagged) = 2
    /\ \E i \in 1..(Len(FenceJson) - 1) :
          TextWith(fs_tagged[1]) = SubSeq(FenceJson, 1, i)
    /\ fs_tagged[2][1].marker
    /\ fs_tagged[2][Len(fs_tagged[2])].marker

-----------------------------------------------------------------------------
(* process_and_index_books and index_all_figures_dev_mode: embedding and  *)
(* upserting the points batch by batch                                    *)

\* BATCH_SIZE of the ingestion script
BATCH_SIZE == 32
\* batch_size of index_all_figures_dev_mode
batch_size == 50
\* the dimension the collection is created with
VECTOR_SIZE == 768

\* BOOKS_TO_INDEX
BOOKS_TO_INDEX ==
    << [figure_name |-> "Marcus Aurelius", source_title |-> "Meditations"],
       [figure_name |-> "Socrates", source_title |-> "The Apology of Socrates by Plato"],
       [figure_name |-> "Cleopatra", source_title |-> "Plutarch's Life of Antony"] >>

\* the batch size of the procedure that runs
BatchSize == IF ix_job = "process_and_index_books" THEN BATCH_SIZE ELSE batch_size

\* the vector the embedding model returns for a text
Embedding(text) == [dim |-> VECTOR_SIZE, of |-> text]

\* the points built from n chunks: vector=[] in the ingestion script, the
\* temporary vector [0.0] * VECTOR_SIZE in index_all_figures_dev_mode
NewPoints(job, k, figure_name, source_name, n) ==
    [c \in 1..n |->
        [id |-> << k, c >>, figure_name |-> figure_name, source_name |-> source_name,
         text |-> << "chunk", k, c >>,
         vector |-> [dim |-> IF job = "process_and_index_books" THEN 0 ELSE VECTOR_SIZE,
                     of |-> << >>]]]

\* the sizes a point list is tried with: up to MaxOver points more than no
\* batch and than one whole batch of size b
ListSizes(b) == (0..MaxOver) \cup (b..(b + MaxOver))

\* the first non-empty list after list cur, 0 when there is none
NextList(lists, cur) ==
    LET later == { j \in (cur + 1)..Len(lists) : lists[j] # << >> }
    IN  IF later = {} THEN 0 ELSE CHOOSE j \in later : \A m \in later : j <= m

\* variant of Batch: the slice starts one point after i
BatchFromNext ==
    LET points == points_to_upsert[ix_cur]
        end == ix_i + BatchSize
    IN  SubSeq(points, ix_i + 2, IF end < Len(points) THEN end ELSE Len(points))

\* batch_points = points_to_upsert[i : i + BATCH_SIZE]
Batch ==
    LET points == points_to_upsert[ix_cur]
        end == ix_i + BatchSize
    IN  SubSeq(points, ix_i + 1, IF end < Len(points) THEN end ELSE Len(points))

\* the point lists are built: one per book from its chunks, or one in all
\* from the biography chunks of the figures; the collection may hold points
InitIngest ==
    /\ \/ /\ ix_job = "process_and_index_books"
          /\ \E n \in [1..Len(BOOKS_TO_INDEX) -> ListSizes(BATCH_SIZE)] :
               points_to_upsert =
                 [k \in 1..Len(BOOKS_TO_INDEX) |->
                    NewPoints(ix_job, k, BOOKS_TO_INDEX[k].figure_name,
                              BOOKS_TO_INDEX[k].source_title, n[k])]
       \/ /\ ix_job = "index_all_figures_dev_mode"
          /\ \E n \in ListSizes(batch_size) :
               points_to_upsert = << NewPoints(ix_job, 1, "Socrates", "Biography", n) >>
    /\ ix_cur = NextList(points_to_upsert, 0)
    /\ ix_i = 0
    /\ ix_pc = IF NextList(points_to_upsert, 0) = 0 THEN "done" ELSE "embed"
    /\ ix_short = FALSE
    /\ index = << >>
    /\ db_messages = << >>
    /\ ChatOff
    /\ SearchOff
    /\ QueryOff
    /\ ReadOff
    /\ BillingOff
    /\ ChunkOff
    /\ StartOff

\* embedding_result = await genai.embed_content_async(content=texts_to_embed):
\* k vectors come back, those of the first k texts, and zip gives them to the
\* first k points of the batch; nothing compares k with the batch length
EmbedBatch ==
    /\ ix_pc = "embed"
    /\ \E k \in 0..Len(Batch) :
         /\ LET points == points_to_upsert[ix_cur]
            IN  points_to_upsert' =
                  [points_to_upsert EXCEPT ![ix_cur] =
                     [j \in 1..Len(points) |->
                        IF j > ix_i /\ j <= ix_i + k
                        THEN [points[j] EXCEPT !.vector = Embedding(points[j].text)]
                        ELSE points[j]]]
         /\ ix_short' = (ix_short \/ k < Len(Batch))
    /\ ix_pc' = "upsert"
    /\ UNCHANGED <<index, ix_job, ix_cur, ix_i>>
    /\ UNCHANGED exceptIngest

\* the embedding call raises: nothing catches it, the procedure ends
EmbedBatchRaises ==
    /\ ix_pc = "embed"
    /\ ix_short' = TRUE
    /\ ix_pc' = "raised"
    /\ UNCHANGED <<index, ix_job, points_to_upsert, ix_cur, ix_i>>
    /\ UNCHANGED exceptIngest

\* await client.upsert(points=batch, wait=True): the collection, created
\* with size=VECTOR_SIZE, takes the batch when every vector has that
\* dimension; the loop goes on with the next batch, the next non-empty list,
\* or ends
UpsertBatch ==
    /\ ix_pc = "upsert"
    /\ \A j \in 1..Len(Batch) : Batch[j].vector.dim = VECTOR_SIZE
    /\ index' = index \o Batch
    /\ IF ix_i + BatchSize < Len(points_to_upsert[ix_cur])
       THEN /\ ix_i' = ix_i + BatchSize
            /\ ix_pc' = "embed"
            /\ UNCHANGED ix_cur
       ELSE /\ ix_i' = 0
            /\ ix_cur' = NextList(points_to_upsert, ix_cur)
            /\ ix_pc' = IF NextList(points_to_upsert, ix_cur) = 0
                        THEN "done" ELSE "embed"
    /\ UNCHANGED <<ix_job, points_to_upsert, ix_short>>
    /\ UNCHANGED exceptIngest

\* the upsert raises (a vector of another dimension, or the service fails):
\* nothing catches it, the procedure ends
UpsertBatchRaises ==
    /\ ix_pc = "upsert"
    /\ ix_pc' = "raised"
    /\ UNCHANGED <<index, ix_job, points_to_upsert, ix_cur, ix_i, ix_short>>
    /\ UNCHANGED exceptIngest

NextIngest ==
    \/ EmbedBatch
    \/ EmbedBatchRaises
    \/ UpsertBatch
    \/ UpsertBatchRaises

SpecIngest == InitIngest /\ [][NextIngest]_vars

-----------------------------------------------------------------------------
(* Properties of the indexing procedures (SpecIngest) *)

\* C19: when the embedding call of a batch raises or returns fewer vectors
\* than the batch has texts, the batch fails with an error: every point of
\* the collection carries the embedding of its own text, and a procedure
\* that ends without error has had no such call and has upserted every point
C19_BatchFailsAtomically ==
    /\ \A i \in 1..Len(index) : index[i].vector = Embedding(index[i].text)
    /\ ix_pc = "done" =>
          /\ ~ix_short
          /\ \A k \in 1..Len(points_to_upsert) :
                \A j \in 1..Len(points_to_upsert[k]) :
                   \E i \in 1..Len(index) : index[i].id = points_to_upsert[k][j].id

\* the points of every book in the order of the books and of their chunks,
\* each with the embedding of its own text
AllEmbedded ==
    Concat([k \in 1..Len(points_to_upsert) |->
              [j \in 1..Len(points_to_upsert[k]) |->
                 [points_to_upsert[k][j] EXCEPT
                    !.vector = Embedding(points_to_upsert[k][j].text)]]])

\* the number of points of the lists before list cur
PointsBefore(cur) ==
    Len(Concat([k \in 1..(cur - 1) |-> points_to_upsert[k]]))

\* C29: while every embedding call of process_and_index_books returns one
\* vector per text, each batch is a slice of 1 to 32 points that starts
\* where the previous one ended, the collection holds exactly the points
\* before the current batch, each once, in order, with the embedding of its
\* own text and its own book's figure_name and source_title, and at the end
\* it holds every chunk of every book
C29_EveryChunkUpsertedOnce ==
    (ix_job = "process_and_index_books" /\ ~ix_short) =>
        /\ ix_pc \in {"embed", "upsert"} =>
              /\ Len(Batch) \in 1..BATCH_SIZE
              /\ ix_i % BATCH_SIZE = 0
              /\ index = SubSeq(AllEmbedded, 1, PointsBefore(ix_cur) + ix_i)
        /\ ix_pc = "done" => index = AllEmbedded
        /\ index = SubSeq(AllEmbedded, 1, Len(index))
        /\ \A i \in 1..Len(index) :
              LET book == BOOKS_TO_INDEX[index[i].id[1]]
              IN  /\ index[i].figure_name = book.figure_name
                  /\ index[i].source_name = book.source_title

\* the ingestion ended after a book of one batch and a point more, a book
\* without chunks and a book of a single chunk
C29_Witness ==
    /\ ix_job = "process_and_index_books"
    /\ ix_pc = "done"
    /\ ~ix_short
    /\ Len(points_to_upsert[1]) = BATCH_SIZE + 1
    /\ Len(points_to_upsert[2]) = 0
    /\ Len(points_to_upsert[3]) = 1
    /\ Len(index) = BATCH_SIZE + 2

-----------------------------------------------------------------------------
(* The Stripe webhook: stripe_webhook and StripeService.handle_webhook_event *)

\* the ids of the User rows
UserIds == {"u1", "u2"}

\* a new User row: no customer, no subscription, status "hobby"
NewUser ==
    [stripe_customer_id |-> "none", stripe_subscription_id |-> "none",
     stripe_subscription_status |-> "hobby"]

Checkout == "checkout.session.completed"
SubscriptionUpdated == "customer.subscription.updated"
SubscriptionDeleted == "customer.subscription.deleted"

\* a request to the endpoint: header carries what becomes of the header and
\* of construct_event, the other fields the event's type and data object
Event(header, type, user, customer, subscription, status) ==
    [header |-> header, type |-> type, client_reference_id |-> user,
     customer |-> customer, subscription |-> subscription, status |-> status]

\* the requests the endpoint is tried with: without signature header, with
\* an invalid payload or signature, and verified events of the three
\* handled types and of another type, for known and unknown ids
WebhookEvents ==
    { Event(h, "none", "none", "none", "none", "none") :
          h \in {"no_header", "invalid_payload", "invalid_signature"} }
    \cup { Event("verified", Checkout, u, c, sub, "none") :
              u \in UserIds \cup {"u9"}, c \in {"c1", "c2"}, sub \in {"s1", "s2"} }
    \cup { Event("verified", t, "none", "none", sub, st) :
              t \in {SubscriptionUpdated, SubscriptionDeleted},
              sub \in {"s1", "s2", "s9"}, st \in {"past_due", "canceled"} }
    \cup { Event("verified", "invoice.paid", "none", "c1", "s1", "none") }

\* variant of HolderOf: the select has no condition on the subscription id
HolderOfAny(users, subscription_id) ==
    { u \in DOMAIN users : users[u].stripe_subscription_id # "none" }

\* select(User).where(User.stripe_subscription_id == subscription_id)
HolderOf(users, subscription_id) ==
    { u \in DOMAIN users : users[u].stripe_subscription_id = subscription_id }

\* the unique constraints of stripe_customer_id and stripe_subscription_id
Unique(users) ==
    \A u, v \in DOMAIN users :
        u # v =>
          /\ users[u].stripe_customer_id = "none"
                \/ users[u].stripe_customer_id # users[v].stripe_customer_id
          /\ users[u].stripe_subscription_id = "none"
                \/ users[u].stripe_subscription_id # users[v].stripe_subscription_id

\* db.add(user); await db.commit(): the rows are written, or the commit
\* raises (always when a unique constraint is broken) and nothing is
\* written; the request then ends with a 500
Commit(users) ==
    \/ /\ Unique(users)
       /\ db_users' = users
       /\ wh_response' = 200
    \/ /\ db_users' = db_users
       /\ wh_response' = 500

\* the request ends with the given status and no row is written
Respond(status) ==
    /\ db_users' = db_users
    /\ wh_response' = status

\* handle_webhook_event once construct_event has returned the event
handle_webhook_event(e) ==
    IF e.type = Checkout
    THEN IF e.client_reference_id \notin DOMAIN db_users
         THEN Respond(200)
         ELSE Commit([db_users EXCEPT ![e.client_reference_id] =
                        [stripe_customer_id |-> e.customer,
                         stripe_subscription_id |-> e.subscription,
                         stripe_subscription_status |-> "active"]])
    ELSE IF e.type \in {SubscriptionUpdated, SubscriptionDeleted}
    THEN LET found == HolderOf(db_users, e.subscription)
         IN  IF found = {} THEN Respond(200)
             ELSE LET user == CHOOSE u \in found : TRUE
                  IN  Commit([db_users EXCEPT
                                ![user].stripe_subscription_status = e.status])
    ELSE Respond(200)

\* the endpoint: 400 without the signature header, 400 when construct_event
\* raises on the payload or on the signature, the handler otherwise
stripe_webhook ==
    /\ \E e \in WebhookEvents :
         /\ wh_event' = e
         /\ IF e.header = "verified" THEN handle_webhook_event(e) ELSE Respond(400)
    /\ UNCHANGED exceptBilling

InitBilling ==
    /\ db_users = [u \in UserIds |-> NewUser]
    /\ wh_event = << >>
    /\ wh_response = 0
    /\ index = << >>
    /\ db_messages = << >>
    /\ ChatOff
    /\ SearchOff
    /\ QueryOff
    /\ ReadOff
    /\ ChunkOff
    /\ IngestOff
    /\ StartOff

NextBilling == stripe_webhook

SpecBilling == InitBilling /\ [][NextBilling]_vars

-----------------------------------------------------------------------------
(* Properties of the Stripe webhook (SpecBilling) *)

\* the User rows a step has changed
Changed == { u \in UserIds : db_users'[u] # db_users[u] }

\* C30: in every step of every sequence of webhook requests, a request
\* without valid signature or payload, of an unhandled type, or for an
\* unknown user or subscription id changes no User row; a
\* checkout.session.completed event changes at most the referenced user,
\* to the event's customer id and subscription id and the status active;
\* a customer.subscription.updated or deleted event changes at most the
\* user that holds the subscription id, and of that user only the status,
\* to the event's status; a request answered with 200 has made its change
C30_WebhookChangesOnlyItsUser ==
    [][ LET e == wh_event'
        IN  /\ e.header # "verified" => (Changed = {} /\ wh_response' = 400)
            /\ (e.header = "verified"
                  /\ e.type \notin {Checkout, SubscriptionUpdated, SubscriptionDeleted})
                  => Changed = {}
            /\ (e.header = "verified" /\ e.type = Checkout) =>
                  /\ Changed \subseteq {e.client_reference_id} \cap UserIds
                  /\ \A u \in UserIds :
                        (u \in Changed \/ (u = e.client_reference_id /\ wh_response' = 200))
                           => db_users'[u] =
                                 [stripe_customer_id |-> e.customer,
                                  stripe_subscription_id |-> e.subscription,
                                  stripe_subscription_status |-> "active"]
            /\ (e.header = "verified"
                  /\ e.type \in {SubscriptionUpdated, SubscriptionDeleted}) =>
                  \A u \in UserIds :
                     IF db_users[u].stripe_subscription_id = e.subscription
                        /\ (u \in Changed \/ wh_response' = 200)
                     THEN db_users'[u] =
                             [db_users[u] EXCEPT !.stripe_subscription_status = e.status]
                     ELSE db_users'[u] = db_users[u]
      ]_vars

\* both users have subscribed, and the subscription of one was then
\* cancelled by an event while the other's stayed active
C30_Witness ==
    /\ wh_event # << >>
    /\ wh_event.type = SubscriptionDeleted
    /\ wh_response = 200
    /\ \E u, v \in UserIds :
          /\ u # v
          /\ db_users[u].stripe_subscription_id = wh_event.subscription
          /\ db_users[u].stripe_subscription_status = "canceled"
          /\ db_users[v].stripe_subscription_id \notin {"none", wh_event.subscription}
          /\ db_users[v].stripe_subscription_status = "active"

====
